---------------------------- MODULE Spec2Model ----------------------------
(***************************************************************************)
(* A state-machine model of the Salis core (PaulTOliver/salis-v2): the     *)
(* memory arena (src/src/memory.c), the evolver (src/src/evolver.c), the   *)
(* process table with its reaper queue and interpreter                     *)
(* (src/src/process.c) and the top-level cycle (src/src/salis.c).          *)
(*                                                                         *)
(* Representation of uint32.  TLC's integers are 32-bit signed, so a C     *)
(* uint32 is modelled by the signed integer with the same 32-bit pattern   *)
(* (two's complement): values below 2^31 are themselves, and a value       *)
(* v >= 2^31 is v - 2^32; UINT32_MAX, which the code writes (uint32)-1, is *)
(* -1.  Every arithmetic step of the code goes through the operators of    *)
(* the first section, which compute modulo 2^32 on 16-bit halves and never *)
(* leave TLC's integer range; comparisons are the unsigned ones.           *)
(***************************************************************************)
EXTENDS Integers, Sequences, FiniteSets, TLC

(***************************************************************************)
(* uint32 arithmetic (src/include/types.h)                                 *)
(***************************************************************************)
UINT32_MAX == -1

HALF == 2 ^ 16

Lo(x) == x % HALF

Hi(x) == (x \div HALF) % HALF

Mk(h, l) == IF h < 32768 THEN h * HALF + l ELSE (h - HALF) * HALF + l

u32_add(a, b) ==
    LET l == Lo(a) + Lo(b)
        h == Hi(a) + Hi(b) + (l \div HALF)
    IN  Mk(h % HALF, l % HALF)

u32_not(a) == (-1) - a

u32_sub(a, b) == u32_add(u32_add(a, u32_not(b)), 1)

u32_lt(a, b) == IF (a >= 0) = (b >= 0) THEN a < b ELSE b < 0

u32_le(a, b) == a = b \/ u32_lt(a, b)

\* the low and the high 16 bits of the product of two 16-bit numbers
Mul16(x, y) ==
    LET p1 == (x \div 256) * y
        p0 == (x % 256) * y
        t  == (p1 % 256) * 256 + p0
    IN  [lo |-> t % HALF, hi |-> (p1 \div 256) + (t \div HALF)]

u32_mul(a, b) ==
    LET ll == Mul16(Lo(a), Lo(b))
        lh == Mul16(Lo(a), Hi(b))
        hl == Mul16(Hi(a), Lo(b))
    IN  Mk((ll.hi + lh.lo + hl.lo) % HALF, ll.lo)

u32_shl(a, n) == u32_mul(a, 2 ^ n)

u32_shr(a, n) ==
    IF n >= 16
    THEN Mk(0, Hi(a) \div (2 ^ (n - 16)))
    ELSE Mk(Hi(a) \div (2 ^ n),
            (Hi(a) % (2 ^ n)) * (2 ^ (16 - n)) + (Lo(a) \div (2 ^ n)))

\* unsigned a / b and a % b for b # 0
u32_div(a, b) ==
    IF b < 0 THEN (IF u32_lt(a, b) THEN 0 ELSE 1)
    ELSE IF a >= 0 THEN a \div b
    ELSE IF b = 1 THEN a
    ELSE LET half == u32_shr(a, 1)
             bit  == a % 2
             q0   == half \div b
             r0   == half % b
             more == IF r0 >= b - r0 - bit THEN 1 ELSE 0
         IN  2 * q0 + more

u32_mod(a, b) == u32_sub(a, u32_mul(u32_div(a, b), b))

RECURSIVE Xor16(_, _, _)
Xor16(x, y, n) ==
    IF n = 0 THEN 0
    ELSE ((x + y) % 2) + 2 * Xor16(x \div 2, y \div 2, n - 1)

u32_xor(a, b) == Mk(Xor16(Hi(a), Hi(b), 16), Xor16(Lo(a), Lo(b), 16))

(***************************************************************************)
(* Instruction set (src/include/instset.h, src/src/instset.c)              *)
(***************************************************************************)
INST_COUNT == 32

NOP0 == 0

NOP1 == 1

MODA == 2

MODB == 3

MODC == 4

MODD == 5

JMPB == 6

JMPF == 7

ADRB == 8

ADRF == 9

MALB == 10

MALF == 11

SWAP == 12

SPLT == 13

INCN == 14

DECN == 15

ZERO == 16

UNIT == 17

NOTN == 18

IFNZ == 19

SUMN == 20

SUBN == 21

MULN == 22

DIVN == 23

LOAD == 24

WRTE == 25

SEND == 26

RECV == 27

PSHN == 28

POPN == 29

EATB == 30

EATF == 31

sal_is_inst(word) == u32_lt(word, INST_COUNT)

is_in_between(inst, low, hi) == inst >= low /\ inst <= hi

sal_is_template(inst) == is_in_between(inst, NOP0, NOP1)

sal_is_mod(inst) == is_in_between(inst, MODA, MODD)

(***************************************************************************)
(* Memory arena (src/src/memory.c).  A byte packs the instruction in bits  *)
(* 0..4 and the ALLOCATED flag in bit 5.  The operators below act on a     *)
(* record w that gathers the globals of the memory and process modules:    *)
(* memory, inst_counter, allocated_count (memory.c) and count, capacity,   *)
(* first, last, procs (process.c).                                         *)
(***************************************************************************)
ALLOCATED_FLAG == 32

INSTRUCTION_MASK == 31

\* the order passed to sal_main_init
ORDER == 3

g_size == 2 ^ ORDER

g_mem_capacity == g_size \div 2

Addrs == 0 .. (g_size - 1)

sal_mem_is_address_valid(address) == u32_lt(address, g_size)

sal_mem_is_allocated(w, address) ==
    (w.memory[address] \div ALLOCATED_FLAG) % 2 = 1

mem_set_allocated(w, address) ==
    IF ~sal_mem_is_allocated(w, address)
    THEN [w EXCEPT !.memory[address] = @ + ALLOCATED_FLAG,
                   !.allocated_count = u32_add(@, 1)]
    ELSE w

\* a plausible slip of the flag unsetter: the flag is cleared, the counter kept
mem_unset_allocated_keeps_count(w, address) ==
    IF sal_mem_is_allocated(w, address)
    THEN [w EXCEPT !.memory[address] = @ - ALLOCATED_FLAG]
    ELSE w

mem_unset_allocated(w, address) ==
    IF sal_mem_is_allocated(w, address)
    THEN [w EXCEPT !.memory[address] = @ - ALLOCATED_FLAG,
                   !.allocated_count = u32_sub(@, 1)]
    ELSE w

sal_mem_get_inst(w, address) == w.memory[address] % (INSTRUCTION_MASK + 1)

\* a plausible slip of sal_mem_set_inst: the old opcode's counter is kept
sal_mem_set_inst_keeps_old(w, address, inst) ==
    [w EXCEPT !.memory[address] = (@ - sal_mem_get_inst(w, address)) + inst,
              !.inst_counter[inst] = u32_add(@, 1)]

\* a plausible slip of sal_mem_set_inst: the byte is overwritten, flag included
sal_mem_set_inst_whole_byte(w, address, inst) ==
    LET old == sal_mem_get_inst(w, address)
        w1  == [w EXCEPT !.inst_counter[old] = u32_sub(@, 1)]
        w2  == [w1 EXCEPT !.memory[address] = inst]
    IN  [w2 EXCEPT !.inst_counter[inst] = u32_add(@, 1)]

sal_mem_set_inst(w, address, inst) ==
    LET old == sal_mem_get_inst(w, address)
        w1  == [w EXCEPT !.inst_counter[old] = u32_sub(@, 1)]
        w2  == [w1 EXCEPT !.memory[address] = (@ - old) + inst]
    IN  [w2 EXCEPT !.inst_counter[inst] = u32_add(@, 1)]

\* a plausible slip of the capacity test: a full arena counts as over capacity
sal_mem_is_over_capacity_or_at(w) == u32_le(g_mem_capacity, w.allocated_count)

sal_mem_is_over_capacity(w) == u32_lt(g_mem_capacity, w.allocated_count)

(***************************************************************************)
(* Process table and reaper queue (src/src/process.c)                      *)
(***************************************************************************)
Regs == {"rax", "rbx", "rcx", "rdx"}

\* a calloc'ed / memset-to-zero struct Process (src/include/process.h)
ZeroProc ==
    [mb1a |-> 0, mb1s |-> 0, mb2a |-> 0, mb2s |-> 0, ip |-> 0, sp |-> 0,
     rax |-> 0, rbx |-> 0, rcx |-> 0, rdx |-> 0,
     stack |-> <<0, 0, 0, 0, 0, 0, 0, 0>>]

sal_proc_is_free(w, proc_id) == w.procs[proc_id].mb1s = 0

RECURSIVE block_is_free_and_valid_from(_, _, _, _)
block_is_free_and_valid_from(w, address, size, offset) ==
    IF ~u32_lt(offset, size) THEN TRUE
    ELSE LET off_addr == u32_add(offset, address)
         IN  IF ~sal_mem_is_address_valid(off_addr) THEN FALSE
             ELSE IF sal_mem_is_allocated(w, off_addr) THEN FALSE
             ELSE block_is_free_and_valid_from(w, address, size, u32_add(offset, 1))

block_is_free_and_valid(w, address, size) ==
    block_is_free_and_valid_from(w, address, size, 0)

\* The two copy loops of realloc_queue, on any array `old` of `cap` slots.
RECURSIVE realloc_fwrd(_, _, _, _, _)
realloc_fwrd(old, cap, last, new_queue, fwrd_idx) ==
    IF u32_mod(fwrd_idx, cap) = last
    THEN [queue |-> [new_queue EXCEPT ![fwrd_idx] = old[last]],
          last |-> fwrd_idx]
    ELSE realloc_fwrd(old, cap, last,
                      [new_queue EXCEPT ![fwrd_idx] = old[u32_mod(fwrd_idx, cap)]],
                      u32_add(fwrd_idx, 1))

RECURSIVE realloc_back(_, _, _, _, _, _)
realloc_back(old, cap, new_capacity, first, new_queue, back_idx) ==
    IF u32_mod(back_idx, cap) = first
    THEN [queue |-> [new_queue EXCEPT ![back_idx] = old[first]],
          first |-> back_idx]
    ELSE realloc_back(old, cap, new_capacity, first,
                      [new_queue EXCEPT ![back_idx] = old[u32_mod(back_idx, cap)]],
                      u32_mod(u32_sub(back_idx, 1), new_capacity))

\* the second loop of realloc_queue, after the first has produced f
realloc_result(b, last, new_capacity) ==
    [queue |-> b.queue, first |-> b.first, last |-> last,
     capacity |-> new_capacity]

\* a plausible slip of the backward copy: it starts at queue_lock - 1
\* wrapped under the old capacity, not the new one
realloc_back_from_old_modulus(old, cap, new_capacity, first, queue_lock, f) ==
    IF queue_lock # first
    THEN realloc_result(realloc_back(old, cap, new_capacity, first, f.queue,
                            u32_mod(u32_sub(queue_lock, 1), cap)),
                        f.last, new_capacity)
    ELSE [queue |-> f.queue, first |-> first, last |-> f.last,
          capacity |-> new_capacity]

realloc_back_from(old, cap, new_capacity, first, queue_lock, f) ==
    IF queue_lock # first
    THEN realloc_result(realloc_back(old, cap, new_capacity, first, f.queue,
                            u32_mod(u32_sub(queue_lock, 1), new_capacity)),
                        f.last, new_capacity)
    ELSE [queue |-> f.queue, first |-> first, last |-> f.last,
          capacity |-> new_capacity]

realloc_into(old, zero, cap, new_capacity, first, last, queue_lock) ==
    realloc_back_from(old, cap, new_capacity, first, queue_lock,
        realloc_fwrd(old, cap, last,
                     [i \in 0 .. (new_capacity - 1) |-> zero], queue_lock))

\* a plausible slip of realloc_queue: the copy is centred on g_first, not on
\* queue_lock
realloc_copy_from_first(old, zero, cap, first, last, queue_lock) ==
    realloc_into(old, zero, cap, u32_mul(cap, 2), first, last, first)

realloc_copy(old, zero, cap, first, last, queue_lock) ==
    realloc_into(old, zero, cap, u32_mul(cap, 2), first, last, queue_lock)

\* the globals of the queue replaced by the result r of the copy
realloc_install(w, r) ==
    [w EXCEPT !.procs = r.queue, !.first = r.first, !.last = r.last,
              !.capacity = r.capacity]

realloc_queue(w, queue_lock) ==
    realloc_install(w, realloc_copy(w.procs, ZeroProc, w.capacity, w.first,
                                    w.last, queue_lock))

\* g_count++ and the choice of the slot, on the record w after the reallocation
take_slot(w) ==
    IF u32_add(w.count, 1) = 1
    THEN [w |-> [w EXCEPT !.count = u32_add(@, 1), !.first = 0, !.last = 0],
          pidx |-> 0]
    ELSE [w |-> [w EXCEPT !.count = u32_add(@, 1),
                          !.last = u32_mod(u32_add(@, 1), w.capacity)],
          pidx |-> u32_mod(u32_add(w.last, 1), w.capacity)]

\* returns the record after the call and the new process ID
get_new_proc_from_queue(w, queue_lock) ==
    take_slot(IF w.count = w.capacity THEN realloc_queue(w, queue_lock) ELSE w)

RECURSIVE allocate_block(_, _, _, _)
allocate_block(w, address, size, offset) ==
    IF ~u32_lt(offset, size) THEN w
    ELSE allocate_block(mem_set_allocated(w, u32_add(offset, address)),
                        address, size, u32_add(offset, 1))

\* a plausible slip of proc_create: the seeker pointer is left at zero
proc_setup_without_sp(n, address, size) ==
    [n.w EXCEPT !.procs[n.pidx].mb1a = address,
                !.procs[n.pidx].mb1s = size,
                !.procs[n.pidx].ip = address]

\* the fields proc_create writes into the new slot n.pidx of n.w
proc_setup(n, address, size) ==
    [n.w EXCEPT !.procs[n.pidx].mb1a = address,
                !.procs[n.pidx].mb1s = size,
                !.procs[n.pidx].ip = address,
                !.procs[n.pidx].sp = address]

proc_create(w, address, size, queue_lock, allocate) ==
    proc_setup(get_new_proc_from_queue(
                   IF allocate THEN allocate_block(w, address, size, 0) ELSE w,
                   queue_lock),
               address, size)

sal_proc_create(w, address, mb1s) == proc_create(w, address, mb1s, 0, TRUE)

RECURSIVE free_memory_block_from(_, _, _, _)
free_memory_block_from(w, address, size, offset) ==
    IF ~u32_lt(offset, size) THEN w
    ELSE free_memory_block_from(mem_unset_allocated(w, u32_add(offset, address)),
                                address, size, u32_add(offset, 1))

\* a plausible slip of free_memory_block: the loop starts one cell early
free_memory_block_one_before(w, address, size) ==
    IF address = 0 THEN free_memory_block_from(w, address, size, 0)
    ELSE free_memory_block_from(w, u32_sub(address, 1), u32_add(size, 1), 0)

free_memory_block(w, address, size) == free_memory_block_from(w, address, size, 0)

free_child_memory(w, pidx) ==
    IF w.procs[pidx].mb2s # 0
    THEN free_memory_block(w, w.procs[pidx].mb2a, w.procs[pidx].mb2s)
    ELSE w

free_memory_owned_by(w, pidx) ==
    free_child_memory(
        free_memory_block(w, w.procs[pidx].mb1a, w.procs[pidx].mb1s), pidx)

\* proc_kill after free_memory_owned_by(g_first): the slot is zeroed, the
\* count decremented and g_first moved
proc_dequeue(w) ==
    IF w.first = w.last
    THEN [w EXCEPT !.procs[w.first] = ZeroProc, !.count = u32_sub(@, 1),
                   !.first = UINT32_MAX, !.last = UINT32_MAX]
    ELSE [w EXCEPT !.procs[w.first] = ZeroProc, !.count = u32_sub(@, 1),
                   !.first = u32_mod(u32_add(@, 1), w.capacity)]

\* a plausible slip of proc_kill: the child block of the victim stays allocated
proc_kill_keeps_child(w) ==
    proc_dequeue(free_memory_block(w, w.procs[w.first].mb1a,
                                   w.procs[w.first].mb1s))

proc_kill(w) == proc_dequeue(free_memory_owned_by(w, w.first))

(***************************************************************************)
(* The interpreter (src/src/process.c).  on_fault does nothing, so a fault *)
(* is just the increment_ip that follows it.                               *)
(***************************************************************************)
\* a plausible slip of increment_ip: past the last address ip wraps to 0
increment_ip_wraps(w, pidx) ==
    LET ip1 == u32_mod(u32_add(w.procs[pidx].ip, 1), g_size)
    IN  [w EXCEPT !.procs[pidx].ip = ip1, !.procs[pidx].sp = ip1]

increment_ip(w, pidx) ==
    LET ip1 == IF sal_mem_is_address_valid(u32_add(w.procs[pidx].ip, 1))
               THEN u32_add(w.procs[pidx].ip, 1)
               ELSE w.procs[pidx].ip
    IN  [w EXCEPT !.procs[pidx].ip = ip1, !.procs[pidx].sp = ip1]

\* a plausible slip of are_templates_complements: only the first cells are compared
are_templates_complements_first_cell(w, source, complement) ==
    /\ sal_mem_is_address_valid(complement)
    /\ sal_mem_get_inst(w, source) + sal_mem_get_inst(w, complement) = NOP0 + NOP1

RECURSIVE are_templates_complements(_, _, _)
are_templates_complements(w, source, complement) ==
    IF sal_mem_is_address_valid(source)
       /\ sal_is_template(sal_mem_get_inst(w, source))
    THEN IF ~sal_mem_is_address_valid(complement) THEN FALSE
         ELSE LET inst_src  == sal_mem_get_inst(w, source)
                  inst_comp == sal_mem_get_inst(w, complement)
              IN  IF inst_src = NOP0 /\ inst_comp # NOP1 THEN FALSE
                  ELSE IF inst_src = NOP1 /\ inst_comp # NOP0 THEN FALSE
                  ELSE are_templates_complements(w, u32_add(source, 1),
                                                 u32_add(complement, 1))
    ELSE TRUE

increment_sp(w, pidx, forward) ==
    LET sp == w.procs[pidx].sp
        s1 == IF forward /\ sal_mem_is_address_valid(u32_add(sp, 1))
              THEN u32_add(sp, 1) ELSE sp
        s2 == IF ~forward /\ sal_mem_is_address_valid(u32_sub(s1, 1))
              THEN u32_sub(s1, 1) ELSE s1
    IN  [w EXCEPT !.procs[pidx].sp = s2]

\* jump_seek and addr_seek return the record after the call and the boolean
jump_seek(w, pidx, forward) ==
    LET next_addr == u32_add(w.procs[pidx].ip, 1)
    IN  IF ~sal_mem_is_address_valid(next_addr)
        THEN [w |-> increment_ip(w, pidx), found |-> FALSE]
        ELSE IF ~sal_is_template(sal_mem_get_inst(w, next_addr))
        THEN [w |-> increment_ip(w, pidx), found |-> FALSE]
        ELSE IF are_templates_complements(w, next_addr, w.procs[pidx].sp)
        THEN [w |-> w, found |-> TRUE]
        ELSE [w |-> increment_sp(w, pidx, forward), found |-> FALSE]

jump(w, pidx) == [w EXCEPT !.procs[pidx].ip = w.procs[pidx].sp]

addr_seek(w, pidx, forward) ==
    LET next1_addr == u32_add(w.procs[pidx].ip, 1)
        next2_addr == u32_add(w.procs[pidx].ip, 2)
    IN  IF ~sal_mem_is_address_valid(next1_addr)
           \/ ~sal_mem_is_address_valid(next2_addr)
        THEN [w |-> increment_ip(w, pidx), found |-> FALSE]
        ELSE IF ~sal_is_mod(sal_mem_get_inst(w, next1_addr))
                \/ ~sal_is_template(sal_mem_get_inst(w, next2_addr))
        THEN [w |-> increment_ip(w, pidx), found |-> FALSE]
        ELSE IF are_templates_complements(w, next2_addr, w.procs[pidx].sp)
        THEN [w |-> w, found |-> TRUE]
        ELSE [w |-> increment_sp(w, pidx, forward), found |-> FALSE]

\* the register a modifier selects: a field name of the process record
RegOf(inst) ==
    CASE inst = MODA -> "rax"
      [] inst = MODB -> "rbx"
      [] inst = MODC -> "rcx"
      [] inst = MODD -> "rdx"

\* ok is the returned boolean, regs the pointers found (as field names)
RECURSIVE get_register_pointers_from(_, _, _, _, _)
get_register_pointers_from(w, pidx, reg_count, ridx, regs) ==
    IF ~(ridx < reg_count) THEN [ok |-> TRUE, regs |-> regs]
    ELSE LET mod_addr == u32_add(u32_add(w.procs[pidx].ip, 1), ridx)
         IN  IF ~sal_mem_is_address_valid(mod_addr)
                \/ ~sal_is_mod(sal_mem_get_inst(w, mod_addr))
             THEN [ok |-> FALSE, regs |-> regs]
             ELSE get_register_pointers_from(w, pidx, reg_count, ridx + 1,
                      Append(regs, RegOf(sal_mem_get_inst(w, mod_addr))))

get_register_pointers(w, pidx, reg_count) ==
    get_register_pointers_from(w, pidx, reg_count, 0, <<>>)

\* a plausible slip of addr: the address stored is that of the instruction
addr_stores_ip(w, pidx) ==
    LET g == get_register_pointers(w, pidx, 1)
    IN  IF ~g.ok THEN increment_ip(w, pidx)
        ELSE increment_ip([w EXCEPT !.procs[pidx][g.regs[1]] = w.procs[pidx].ip],
                          pidx)

addr(w, pidx) ==
    LET g == get_register_pointers(w, pidx, 1)
    IN  IF ~g.ok THEN increment_ip(w, pidx)
        ELSE increment_ip([w EXCEPT !.procs[pidx][g.regs[1]] = w.procs[pidx].sp],
                          pidx)

\* a plausible slip of free_child_block_of: the cells are freed, the record
\* keeps its child block
free_child_block_of_keeps_record(w, pidx) ==
    free_memory_block(w, w.procs[pidx].mb2a, w.procs[pidx].mb2s)

free_child_block_of(w, pidx) ==
    LET w1 == free_memory_block(w, w.procs[pidx].mb2a, w.procs[pidx].mb2s)
    IN  [w1 EXCEPT !.procs[pidx].mb2a = 0, !.procs[pidx].mb2s = 0]

alloc(w, pidx, forward) ==
    LET g  == get_register_pointers(w, pidx, 2)
        p  == w.procs[pidx]
    IN  IF ~g.ok THEN increment_ip(w, pidx)
        ELSE LET block_size == p[g.regs[1]]
                 exp_addr   == IF forward THEN u32_add(p.mb2a, p.mb2s)
                               ELSE u32_sub(p.mb2a, 1)
             IN  IF block_size = 0 THEN increment_ip(w, pidx)
                 ELSE IF p.mb2s # 0 /\ p.sp # exp_addr
                 THEN increment_ip(w, pidx)
                 ELSE IF p.mb2s = block_size
                 THEN LET w1 == increment_ip(w, pidx)
                      IN  [w1 EXCEPT !.procs[pidx][g.regs[2]] = w1.procs[pidx].mb2a]
                 ELSE IF sal_mem_is_allocated(w, p.sp)
                 THEN increment_sp(IF p.mb2s # 0
                                   THEN free_child_block_of(w, pidx) ELSE w,
                                   pidx, forward)
                 ELSE LET w1 == mem_set_allocated(w, p.sp)
                          w2 == IF p.mb2s = 0 \/ ~forward
                                THEN [w1 EXCEPT !.procs[pidx].mb2a = p.sp]
                                ELSE w1
                          w3 == [w2 EXCEPT !.procs[pidx].mb2s = u32_add(@, 1)]
                      IN  increment_sp(w3, pidx, forward)

swap(w, pidx) ==
    LET p == w.procs[pidx]
    IN  IF p.mb2s # 0
        THEN increment_ip([w EXCEPT !.procs[pidx].mb1a = p.mb2a,
                                    !.procs[pidx].mb1s = p.mb2s,
                                    !.procs[pidx].mb2a = p.mb1a,
                                    !.procs[pidx].mb2s = p.mb1s], pidx)
        ELSE increment_ip(w, pidx)

\* a plausible slip of split: the parent keeps its child block fields
split_keeps_child(w, pidx) ==
    IF w.procs[pidx].mb2s # 0
    THEN increment_ip(proc_create(w, w.procs[pidx].mb2a, w.procs[pidx].mb2s,
                                  pidx, FALSE), pidx)
    ELSE increment_ip(w, pidx)

split(w, pidx) ==
    IF w.procs[pidx].mb2s # 0
    THEN LET w1 == proc_create(w, w.procs[pidx].mb2a, w.procs[pidx].mb2s,
                               pidx, FALSE)
         IN  increment_ip([w1 EXCEPT !.procs[pidx].mb2a = 0,
                                     !.procs[pidx].mb2s = 0], pidx)
    ELSE increment_ip(w, pidx)

one_reg_op(w, pidx, inst) ==
    LET g == get_register_pointers(w, pidx, 1)
    IN  IF ~g.ok THEN increment_ip(w, pidx)
        ELSE LET v == w.procs[pidx][g.regs[1]]
                 r == CASE inst = INCN -> u32_add(v, 1)
                        [] inst = DECN -> u32_sub(v, 1)
                        [] inst = ZERO -> 0
                        [] inst = UNIT -> 1
                        [] inst = NOTN -> IF v = 0 THEN 1 ELSE 0
             IN  increment_ip([w EXCEPT !.procs[pidx][g.regs[1]] = r], pidx)

if_not_zero(w, pidx) ==
    LET g == get_register_pointers(w, pidx, 1)
    IN  IF ~g.ok THEN increment_ip(w, pidx)
        ELSE LET w1 == IF w.procs[pidx][g.regs[1]] = 0
                       THEN increment_ip(w, pidx) ELSE w
             IN  increment_ip(increment_ip(w1, pidx), pidx)

\* a plausible slip of three_reg_op: a division by zero yields zero
three_reg_op_zero_quotient(w, pidx, inst) ==
    LET g == get_register_pointers(w, pidx, 3)
    IN  IF ~g.ok THEN increment_ip(w, pidx)
        ELSE LET a == w.procs[pidx][g.regs[2]]
                 b == w.procs[pidx][g.regs[3]]
                 r == CASE inst = SUMN -> u32_add(a, b)
                        [] inst = SUBN -> u32_sub(a, b)
                        [] inst = MULN -> u32_mul(a, b)
                        [] inst = DIVN -> IF b = 0 THEN 0 ELSE u32_div(a, b)
             IN  increment_ip([w EXCEPT !.procs[pidx][g.regs[1]] = r], pidx)

three_reg_op(w, pidx, inst) ==
    LET g == get_register_pointers(w, pidx, 3)
    IN  IF ~g.ok THEN increment_ip(w, pidx)
        ELSE LET a == w.procs[pidx][g.regs[2]]
                 b == w.procs[pidx][g.regs[3]]
             IN  IF inst = DIVN /\ b = 0 THEN increment_ip(w, pidx)
                 ELSE LET r == CASE inst = SUMN -> u32_add(a, b)
                                 [] inst = SUBN -> u32_sub(a, b)
                                 [] inst = MULN -> u32_mul(a, b)
                                 [] inst = DIVN -> u32_div(a, b)
                      IN  increment_ip([w EXCEPT !.procs[pidx][g.regs[1]] = r],
                                       pidx)

\* a plausible slip of load: the seeker only ever moves forward
load_seeks_forward_only(w, pidx) ==
    LET g == get_register_pointers(w, pidx, 2)
        p == w.procs[pidx]
    IN  IF ~g.ok THEN increment_ip(w, pidx)
        ELSE IF ~sal_mem_is_address_valid(p[g.regs[1]]) THEN increment_ip(w, pidx)
        ELSE IF p.sp # p[g.regs[1]] THEN increment_sp(w, pidx, TRUE)
        ELSE increment_ip([w EXCEPT !.procs[pidx][g.regs[2]] =
                                        sal_mem_get_inst(w, p[g.regs[1]])], pidx)

load(w, pidx) ==
    LET g == get_register_pointers(w, pidx, 2)
        p == w.procs[pidx]
    IN  IF ~g.ok THEN increment_ip(w, pidx)
        ELSE IF ~sal_mem_is_address_valid(p[g.regs[1]]) THEN increment_ip(w, pidx)
        ELSE IF u32_lt(p.sp, p[g.regs[1]]) THEN increment_sp(w, pidx, TRUE)
        ELSE IF u32_lt(p[g.regs[1]], p.sp) THEN increment_sp(w, pidx, FALSE)
        ELSE increment_ip([w EXCEPT !.procs[pidx][g.regs[2]] =
                                        sal_mem_get_inst(w, p[g.regs[1]])], pidx)

\* a plausible slip of is_writeable_by: the allocation of the cell is not looked at
is_writeable_by_anyone(w, pidx, address) == TRUE

is_writeable_by(w, pidx, address) ==
    IF ~sal_mem_is_allocated(w, address) THEN TRUE
    ELSE LET lo1 == w.procs[pidx].mb1a
             lo2 == w.procs[pidx].mb2a
             hi1 == u32_add(lo1, w.procs[pidx].mb1s)
             hi2 == u32_add(lo2, w.procs[pidx].mb2s)
         IN  (u32_le(lo1, address) /\ u32_lt(address, hi1))
             \/ (u32_le(lo2, address) /\ u32_lt(address, hi2))

write(w, pidx) ==
    LET g == get_register_pointers(w, pidx, 2)
        p == w.procs[pidx]
    IN  IF ~g.ok THEN increment_ip(w, pidx)
        ELSE IF ~sal_mem_is_address_valid(p[g.regs[1]])
                \/ ~sal_is_inst(p[g.regs[2]])
        THEN increment_ip(w, pidx)
        ELSE IF u32_lt(p.sp, p[g.regs[1]]) THEN increment_sp(w, pidx, TRUE)
        ELSE IF u32_lt(p[g.regs[1]], p.sp) THEN increment_sp(w, pidx, FALSE)
        ELSE IF is_writeable_by(w, pidx, p[g.regs[1]])
        THEN increment_ip(sal_mem_set_inst(w, p[g.regs[1]], p[g.regs[2]]), pidx)
        ELSE increment_ip(w, pidx)

\* the byte handed to the pipe leaves the simulation: no state of the core changes
send(w, pidx) ==
    LET g == get_register_pointers(w, pidx, 1)
    IN  IF ~g.ok THEN increment_ip(w, pidx)
        ELSE IF ~sal_is_inst(w.procs[pidx][g.regs[1]]) THEN increment_ip(w, pidx)
        ELSE increment_ip(w, pidx)

\* received is the value _sal_comm_receive returns
receive(w, pidx, received) ==
    LET g == get_register_pointers(w, pidx, 1)
    IN  IF ~g.ok THEN increment_ip(w, pidx)
        ELSE increment_ip([w EXCEPT !.procs[pidx][g.regs[1]] = received], pidx)

push(w, pidx) ==
    LET g == get_register_pointers(w, pidx, 1)
        p == w.procs[pidx]
    IN  IF ~g.ok THEN increment_ip(w, pidx)
        ELSE increment_ip([w EXCEPT !.procs[pidx].stack =
                               <<p[g.regs[1]]>> \o SubSeq(p.stack, 1, 7)], pidx)

pop(w, pidx) ==
    LET g == get_register_pointers(w, pidx, 1)
        p == w.procs[pidx]
    IN  IF ~g.ok THEN increment_ip(w, pidx)
        ELSE increment_ip([w EXCEPT !.procs[pidx][g.regs[1]] = p.stack[1],
                                    !.procs[pidx].stack =
                                        SubSeq(p.stack, 2, 8) \o <<0>>], pidx)

proc_cycle(w, pidx, received) ==
    LET inst == sal_mem_get_inst(w, w.procs[pidx].ip)
    IN  CASE inst = JMPB ->
               LET j == jump_seek(w, pidx, FALSE)
               IN  IF j.found THEN jump(j.w, pidx) ELSE j.w
          [] inst = JMPF ->
               LET j == jump_seek(w, pidx, TRUE)
               IN  IF j.found THEN jump(j.w, pidx) ELSE j.w
          [] inst = ADRB ->
               LET a == addr_seek(w, pidx, FALSE)
               IN  IF a.found THEN addr(a.w, pidx) ELSE a.w
          [] inst = ADRF ->
               LET a == addr_seek(w, pidx, TRUE)
               IN  IF a.found THEN addr(a.w, pidx) ELSE a.w
          [] inst = MALB -> alloc(w, pidx, FALSE)
          [] inst = MALF -> alloc(w, pidx, TRUE)
          [] inst = SWAP -> swap(w, pidx)
          [] inst = SPLT -> split(w, pidx)
          [] inst \in {INCN, DECN, ZERO, UNIT, NOTN} -> one_reg_op(w, pidx, inst)
          [] inst = IFNZ -> if_not_zero(w, pidx)
          [] inst \in {SUMN, SUBN, MULN, DIVN} -> three_reg_op(w, pidx, inst)
          [] inst = LOAD -> load(w, pidx)
          [] inst = WRTE -> write(w, pidx)
          [] inst = SEND -> send(w, pidx)
          [] inst = RECV -> receive(w, pidx, received)
          [] inst = PSHN -> push(w, pidx)
          [] inst = POPN -> pop(w, pidx)
          [] OTHER -> increment_ip(w, pidx)

(***************************************************************************)
(* Evolver (src/src/evolver.c).  e gathers its globals: state (g_state[0]  *)
(* is state[1]), last_changed_address, last_changed_process.               *)
(***************************************************************************)
\* returns the evolver record after the draw and the number drawn
generate_random_number(e) ==
    LET t0   == e.state[4]
        t1   == u32_xor(t0, u32_shl(t0, 11))
        t2   == u32_xor(t1, u32_shr(t1, 8))
        tmp1 == e.state[1]
        t3   == u32_xor(t2, tmp1)
        t4   == u32_xor(t3, u32_shr(tmp1, 19))
    IN  [e |-> [e EXCEPT !.state = <<t4, e.state[1], e.state[2], e.state[3]>>],
         n |-> t4]

evo_randomize_at(e, w, address) ==
    LET d    == generate_random_number(e)
        inst == u32_mod(d.n, INST_COUNT)
    IN  [e |-> [d.e EXCEPT !.last_changed_address = address],
         w |-> sal_mem_set_inst(w, address, inst)]

\* The register-shift mutation.  The source of sal_proc_mutate is not part
\* of the tree (only its declaration, src/include/process.h, and its call,
\* src/src/evolver.c); it is modelled from the specification: two bits of
\* rand_int pick one of the four registers, which is shifted left by one.
sal_proc_mutate(w, proc_id, rand_int) ==
    LET reg == <<"rax", "rbx", "rcx", "rdx">>[(rand_int % 4) + 1]
    IN  [w EXCEPT !.procs[proc_id][reg] = u32_shl(@, 1)]

\* quotient is the value of generate_random_number() / sal_proc_get_count()
\* the second half of _sal_evo_cycle, on the records r after the first
evo_mutate_proc(r, proc_id) ==
    IF u32_lt(proc_id, r.w.capacity) /\ ~sal_proc_is_free(r.w, proc_id)
    THEN LET d == generate_random_number(r.e)
         IN  [e |-> [d.e EXCEPT !.last_changed_process = proc_id],
              w |-> sal_proc_mutate(r.w, proc_id, d.n)]
    ELSE r

evo_cycle_with(e, w, address, quotient) ==
    evo_mutate_proc(IF sal_mem_is_address_valid(address)
                    THEN evo_randomize_at(e, w, address)
                    ELSE [e |-> e, w |-> w],
                    quotient)

\* _sal_evo_cycle with at least one process: the division is defined
evo_cycle(e, w) ==
    LET d1 == generate_random_number(e)
        d2 == generate_random_number(d1.e)
    IN  evo_cycle_with(d2.e, w, d1.n, u32_div(d2.n, w.count))

\* _sal_evo_cycle with no process: the division by sal_proc_get_count() = 0
\* is undefined; where it does not trap it yields some value q
evo_cycle_div_zero(e, w, q) ==
    LET d1 == generate_random_number(e)
        d2 == generate_random_number(d1.e)
    IN  evo_cycle_with(d2.e, w, d1.n, q)

(***************************************************************************)
(* Renderer (render.c).  A pixel is a byte: the mean opcode of its cells,  *)
(* ALLOCATED_FLAG when one of them is allocated, and the flags of the      *)
(* second loop.  Both loops are OpenMP parallel loops; the second ors      *)
(* into bytes that two of its iterations may share, unsynchronised, so a   *)
(* pixel is modelled by the set of bytes the loop can leave in it.         *)
(***************************************************************************)
BLOCK_FLAG == 64

IP_FLAG == 128

\* the pixels apply_flag ors `flag` into: one, or none outside the image
apply_flag(origin, max_pos, cell_size, address) ==
    IF ~u32_lt(address, origin) /\ u32_lt(address, max_pos)
    THEN {u32_div(u32_sub(address, origin), cell_size)}
    ELSE {}

\* the inner loop of the first pass from j on: inst_sum and alloc_flag
RECURSIVE ren_cells(_, _, _, _, _, _)
ren_cells(w, cell_addr, cell_size, j, inst_sum, alloc_flag) ==
    IF j >= cell_size THEN [inst_sum |-> inst_sum, alloc_flag |-> alloc_flag]
    ELSE IF ~sal_mem_is_address_valid(u32_add(j, cell_addr))
    THEN ren_cells(w, cell_addr, cell_size, j + 1, inst_sum, alloc_flag)
    ELSE ren_cells(w, cell_addr, cell_size, j + 1,
                   u32_add(inst_sum, sal_mem_get_inst(w, u32_add(j, cell_addr))),
                   IF sal_mem_is_allocated(w, u32_add(j, cell_addr))
                   THEN ALLOCATED_FLAG ELSE alloc_flag)

\* buffer[i] after the first pass (the mean is below ALLOCATED_FLAG)
ren_mean(w, origin, cell_size, i) ==
    LET c == ren_cells(w, u32_add(origin, u32_mul(i, cell_size)), cell_size, 0, 0, 0)
    IN  (u32_div(c.inst_sum, cell_size) % 256) + c.alloc_flag

\* the flag writes of the second pass that land on pixel i, each named by
\* the slot that makes it, the field it marks and the flag
ren_flag_writes(w, origin, cell_size, buff_size, i) ==
    LET max_pos == u32_add(origin, u32_mul(cell_size, buff_size))
    IN  { wr \in { <<id, field>> : id \in 0 .. (w.count - 1),
                                   field \in {"ip", "mb1a", "mb2a"} } :
            /\ ~sal_proc_is_free(w, wr[1])
            /\ wr[2] = "mb2a" => w.procs[wr[1]].mb2s # 0
            /\ i \in apply_flag(origin, max_pos, cell_size, w.procs[wr[1]][wr[2]]) }

\* the flags a set of writes ors into a pixel
ren_flags(writes) ==
    (IF \E wr \in writes : wr[2] = "ip" THEN IP_FLAG ELSE 0)
        + (IF \E wr \in writes : wr[2] # "ip" THEN BLOCK_FLAG ELSE 0)

\* the image: for each pixel, the bytes the call can leave in it.  Writes of
\* one iteration are ordered; writes of different iterations to one pixel
\* race, and a read-modify-write may then lose any write but the last.
sal_ren_get_image(w, origin, cell_size, buff_size) ==
    [i \in 0 .. (buff_size - 1) |->
        LET writes == ren_flag_writes(w, origin, cell_size, buff_size, i)
            kept   == IF \A a, b \in writes : a[1] = b[1]
                      THEN {writes}
                      ELSE (SUBSET writes) \ {{}}
        IN  { ren_mean(w, origin, cell_size, i) + ren_flags(k) : k \in kept }]

(***************************************************************************)
(* Snapshots (sal_main_save, sal_main_quit, sal_main_load).  A core is the *)
(* record of everything the four modules keep: init (their g_is_init),     *)
(* cycle, epoch, hdr (the scalars of memory.c other than the allocated     *)
(* counter), w and e.  A file is the sequence of the elements written, a   *)
(* boolean as the word 0 or 1.                                             *)
(***************************************************************************)
BoolWord(b) == IF b THEN 1 ELSE 0

\* the fields of struct Process in their order
ProcWords(p) ==
    <<p.mb1a, p.mb1s, p.mb2a, p.mb2s, p.ip, p.sp, p.rax, p.rbx, p.rcx, p.rdx>>
        \o p.stack

ProcWordCount == 18

RECURSIVE ProcsWords(_, _, _)
ProcsWords(procs, i, capacity) ==
    IF i >= capacity THEN <<>>
    ELSE ProcWords(procs[i]) \o ProcsWords(procs, i + 1, capacity)

mem_save_into(c) ==
    <<BoolWord(c.init.mem), c.hdr.order, c.hdr.size, c.hdr.ip_count,
      c.hdr.block_start_count, c.w.allocated_count, c.hdr.capacity>>
        \o [i \in 1 .. INST_COUNT |-> c.w.inst_counter[i - 1]]
        \o [i \in 1 .. c.hdr.size |-> c.w.memory[i - 1]]

evo_save_into(c) ==
    <<BoolWord(c.init.evo), c.e.last_changed_address,
      c.e.last_changed_process>> \o c.e.state

proc_save_into(c) ==
    <<BoolWord(c.init.proc), c.w.count, c.w.capacity, c.w.first, c.w.last>>
        \o ProcsWords(c.w.procs, 0, c.w.capacity)

sal_main_save(c) ==
    <<BoolWord(c.init.main), c.cycle, c.epoch>>
        \o mem_save_into(c) \o evo_save_into(c) \o proc_save_into(c)

\* the state sal_main_quit leaves
QuitCore ==
    [init |-> [main |-> FALSE, mem |-> FALSE, evo |-> FALSE, proc |-> FALSE],
     cycle |-> 0, epoch |-> 0,
     hdr |-> [order |-> 0, size |-> 0, ip_count |-> 0, block_start_count |-> 0,
              capacity |-> 0],
     w |-> [memory |-> <<>>,
            inst_counter |-> [i \in 0 .. (INST_COUNT - 1) |-> 0],
            allocated_count |-> 0,
            count |-> 0, capacity |-> 0, first |-> 0, last |-> 0,
            procs |-> <<>>],
     e |-> [state |-> <<0, 0, 0, 0>>, last_changed_address |-> 0,
            last_changed_process |-> 0]]

\* fread of one element at position pos: a read past the end of the file
\* stores nothing, and its result is not looked at
Item(f, pos, old) == IF pos <= Len(f) THEN f[pos] ELSE old

ReadBool(f, pos, old) == IF pos <= Len(f) THEN f[pos] # 0 ELSE old

\* one record of the array calloc zeroed, then read
ReadProc(f, pos) ==
    [mb1a |-> Item(f, pos, 0), mb1s |-> Item(f, pos + 1, 0),
     mb2a |-> Item(f, pos + 2, 0), mb2s |-> Item(f, pos + 3, 0),
     ip |-> Item(f, pos + 4, 0), sp |-> Item(f, pos + 5, 0),
     rax |-> Item(f, pos + 6, 0), rbx |-> Item(f, pos + 7, 0),
     rcx |-> Item(f, pos + 8, 0), rdx |-> Item(f, pos + 9, 0),
     stack |-> [k \in 1 .. 8 |-> Item(f, pos + 9 + k, 0)]]

\* a loader that takes the memory section to be is_init, order, size,
\* allocated, capacity, the counters and the bytes
mem_load_from_five_scalars(f, pos, c) ==
    [pos |-> pos + 5 + INST_COUNT + Item(f, pos + 2, c.hdr.size),
     c |-> [c EXCEPT
              !.init.mem = ReadBool(f, pos, @),
              !.hdr = [order |-> Item(f, pos + 1, @.order),
                       size |-> Item(f, pos + 2, @.size),
                       ip_count |-> @.ip_count,
                       block_start_count |-> @.block_start_count,
                       capacity |-> Item(f, pos + 4, @.capacity)],
              !.w.allocated_count = Item(f, pos + 3, @),
              !.w.inst_counter =
                  [i \in 0 .. (INST_COUNT - 1) |-> Item(f, pos + 5 + i, @[i])],
              !.w.memory =
                  [a \in 0 .. (Item(f, pos + 2, c.hdr.size) - 1) |->
                      Item(f, pos + 5 + INST_COUNT + a, 0)]]]

\* the loaders return the core after the call and the position in the file
mem_load_from(f, pos, c) ==
    [pos |-> pos + 7 + INST_COUNT + Item(f, pos + 2, c.hdr.size),
     c |-> [c EXCEPT
              !.init.mem = ReadBool(f, pos, @),
              !.hdr = [order |-> Item(f, pos + 1, @.order),
                       size |-> Item(f, pos + 2, @.size),
                       ip_count |-> Item(f, pos + 3, @.ip_count),
                       block_start_count |-> Item(f, pos + 4, @.block_start_count),
                       capacity |-> Item(f, pos + 6, @.capacity)],
              !.w.allocated_count = Item(f, pos + 5, @),
              !.w.inst_counter =
                  [i \in 0 .. (INST_COUNT - 1) |-> Item(f, pos + 7 + i, @[i])],
              !.w.memory =
                  [a \in 0 .. (Item(f, pos + 2, c.hdr.size) - 1) |->
                      Item(f, pos + 7 + INST_COUNT + a, 0)]]]

evo_load_from(f, pos, c) ==
    [pos |-> pos + 7,
     c |-> [c EXCEPT
              !.init.evo = ReadBool(f, pos, @),
              !.e.last_changed_address = Item(f, pos + 1, @),
              !.e.last_changed_process = Item(f, pos + 2, @),
              !.e.state = [i \in 1 .. 4 |-> Item(f, pos + 2 + i, @[i])]]]

proc_load_from(f, pos, c) ==
    [pos |-> pos + 5 + ProcWordCount * Item(f, pos + 2, c.w.capacity),
     c |-> [c EXCEPT
              !.init.proc = ReadBool(f, pos, @),
              !.w.count = Item(f, pos + 1, @),
              !.w.capacity = Item(f, pos + 2, @),
              !.w.first = Item(f, pos + 3, @),
              !.w.last = Item(f, pos + 4, @),
              !.w.procs =
                  [i \in 0 .. (Item(f, pos + 2, c.w.capacity) - 1) |->
                      ReadProc(f, pos + 5 + ProcWordCount * i)]]]

sal_main_load(f, c) ==
    LET c0 == [c EXCEPT !.init.main = ReadBool(f, 1, @),
                        !.cycle = Item(f, 2, @),
                        !.epoch = Item(f, 3, @)]
        m  == mem_load_from(f, 4, c0)
        e  == evo_load_from(f, m.pos, m.c)
    IN  proc_load_from(f, e.pos, e.c).c

(***************************************************************************)
(* The state machine                                                       *)
(***************************************************************************)
VARIABLES
    g_cycle, g_epoch,                               \* salis.c
    g_memory, g_inst_counter, g_allocated_count,    \* memory.c
    g_state, g_last_changed_address, g_last_changed_process,  \* evolver.c
    g_count, g_capacity, g_first, g_last, g_procs,  \* process.c
    pc,         \* "idle": between API calls; "run": in the scheduling loop of
                \* _sal_proc_cycle, about to call proc_cycle(pidx); "reap": in
                \* its reaping loop; "trap": killed by the division by zero
    pidx,       \* the loop variable of _sal_proc_cycle
    \* history variables, read by no action's guard or update of the above
    uid,        \* uid[slot]: birth number of the process in the slot, 0 if none
    next_uid,   \* the next birth number
    tick_start, \* birth numbers in the queue, oldest first, when the tick began
    tick_capacity, \* g_capacity when the tick began
    trace,      \* birth numbers of the processes stepped so far in this tick
    ev,         \* what the last step did
    api,        \* number of API calls (sal_proc_create, sal_proc_kill) so far
    g_is_init,  \* the g_is_init of salis.c, memory.c, evolver.c and process.c
    g_mem_hdr,  \* g_order, g_size, g_ip_count, g_block_start_count and
                \* g_capacity of memory.c
    file,       \* the snapshot file: one item per element written, <<>> if none
    saved       \* history variable: <<>> or the state when the file was written

vars == <<g_cycle, g_epoch, g_memory, g_inst_counter, g_allocated_count,
          g_state, g_last_changed_address, g_last_changed_process,
          g_count, g_capacity, g_first, g_last, g_procs, pc, pidx,
          uid, next_uid, tick_start, tick_capacity, trace, ev, api,
          g_is_init, g_mem_hdr, file, saved>>

\* what only sal_main_save, sal_main_quit and sal_main_load change
snapshot_vars == <<g_is_init, g_mem_hdr, file, saved>>

\* bounds of the exploration
MaxCycle == 8

MaxApi == 4

\* the API calls are explored up to this cycle
ApiUntil == 0

W == [memory |-> g_memory, inst_counter |-> g_inst_counter,
      allocated_count |-> g_allocated_count,
      count |-> g_count, capacity |-> g_capacity, first |-> g_first,
      last |-> g_last, procs |-> g_procs]

E == [state |-> g_state, last_changed_address |-> g_last_changed_address,
      last_changed_process |-> g_last_changed_process]

SetW(w) ==
    /\ g_memory' = w.memory
    /\ g_inst_counter' = w.inst_counter
    /\ g_allocated_count' = w.allocated_count
    /\ g_count' = w.count
    /\ g_capacity' = w.capacity
    /\ g_first' = w.first
    /\ g_last' = w.last
    /\ g_procs' = w.procs

SetE(e) ==
    /\ g_state' = e.state
    /\ g_last_changed_address' = e.last_changed_address
    /\ g_last_changed_process' = e.last_changed_process

\* the value of ev when nothing of note happened
NoEv ==
    [op |-> "init", slot |-> 0, inst |-> NOP0, born |-> FALSE,
     realloc |-> FALSE, freed |-> FALSE, wrote |-> FALSE, ray |-> FALSE]

\* slots of the queue from first (oldest) to last (newest)
QueueSlots(count, capacity, first) ==
    [i \in 1 .. count |-> u32_mod(u32_add(first, i - 1), capacity)]

Reverse(s) == [i \in 1 .. Len(s) |-> s[Len(s) + 1 - i]]

\* the birth numbers after a step from w to w2 in which proc_create may have
\* run with the given queue_lock: they move as realloc_queue moves the records
UidAfterBirth(w, w2, queue_lock) ==
    IF w2.count = w.count
    THEN uid
    ELSE [(IF w.count = w.capacity
           THEN realloc_copy(uid, 0, w.capacity, w.first, w.last,
                             queue_lock).queue
           ELSE uid) EXCEPT ![w2.last] = next_uid]

\* memory and queue after _sal_mem_init, _sal_proc_init (and the evolver
\* seeded with `seed`), then a genome written with sal_mem_set_inst
RECURSIVE compile(_, _, _)
compile(w, layout, i) ==
    IF i > Len(layout) \/ ~sal_mem_is_address_valid(i - 1) THEN w
    ELSE compile(sal_mem_set_inst(w, i - 1, layout[i]), layout, i + 1)

InitW ==
    [memory |-> [a \in Addrs |-> 0],
     inst_counter |-> [i \in 0 .. (INST_COUNT - 1) |-> IF i = 0 THEN g_size ELSE 0],
     allocated_count |-> 0,
     count |-> 0, capacity |-> 1, first |-> UINT32_MAX, last |-> UINT32_MAX,
     procs |-> [i \in 0 .. 0 |-> ZeroProc]]

\* The genomes the arena is loaded with, from address 0.  A process created
\* at address 1 runs, in the first, a replicator (a one-cell child allocated
\* forward, then split off); in the second, a backward allocation of two
\* cells; in the third, a write of NOP0 to address 0.
Replicator == <<NOP0, UNIT, MODA, MALF, MODA, MODB, SPLT, NOP0>>

Allocator == <<NOP0, UNIT, MODA, INCN, MODA, MALB, MODA, MODB>>

Writer == <<NOP1, WRTE, MODA, MODB, NOP0, NOP0, NOP0, NOP0>>

\* The states of the generator _sal_evo_init may leave: four values of
\* rand().  The first draws no valid address and no process in the first
\* ticks; the second draws address 7, process 0, NOP1 and register rax in
\* the first tick, and nothing after.
QuietSeed == <<1804289383, 846930886, 1681692777, 1714636915>>

RaySeed == <<4196353, 4196353, 29374471, 327317574>>

\* the simulations explored: a genome and a seed
Worlds ==
    { <<Replicator, QuietSeed>>, <<Replicator, RaySeed>>,
      <<Allocator, QuietSeed>>, <<Writer, QuietSeed>> }

\* the state after sal_main_init and the genome's sal_mem_set_inst calls; the
\* clock reads one of `cycles`
InitFrom(worlds, cycles) ==
    /\ g_cycle \in cycles
    /\ g_epoch = 0
    /\ \E world \in worlds :
         \E w \in {compile(InitW, world[1], 1)} :
             /\ g_memory = w.memory
             /\ g_inst_counter = w.inst_counter
             /\ g_allocated_count = w.allocated_count
             /\ g_count = w.count
             /\ g_capacity = w.capacity
             /\ g_first = w.first
             /\ g_last = w.last
             /\ g_procs = w.procs
             /\ g_state = world[2]
    /\ g_last_changed_address = 0
    /\ g_last_changed_process = 0
    /\ pc = "idle"
    /\ pidx = 0
    /\ uid = [i \in 0 .. 0 |-> 0]
    /\ next_uid = 1
    /\ tick_start = <<>>
    /\ tick_capacity = 1
    /\ trace = <<>>
    /\ ev = NoEv
    /\ api = 0
    /\ g_is_init = [main |-> TRUE, mem |-> TRUE, evo |-> TRUE, proc |-> TRUE]
    /\ g_mem_hdr = [order |-> ORDER, size |-> g_size, ip_count |-> 0,
                    block_start_count |-> 0, capacity |-> g_mem_capacity]
    /\ file = <<>>
    /\ saved = <<>>

InitWith(worlds) == InitFrom(worlds, {0})

Init == InitWith(Worlds)

\* sal_proc_create(address, mb1s)
CreateBlocks == { <<1, 1>>, <<1, 0>>, <<4, 1>>, <<6, 2>> }

ProcCreate(address, mb1s) ==
    /\ pc = "idle"
    /\ api < MaxApi
    /\ g_cycle <= ApiUntil
    /\ sal_mem_is_address_valid(address)
    /\ sal_mem_is_address_valid(u32_sub(u32_add(address, mb1s), 1))
    /\ block_is_free_and_valid(W, address, mb1s)
    /\ \E w2 \in {sal_proc_create(W, address, mb1s)} :
           /\ SetW(w2)
           /\ uid' = UidAfterBirth(W, w2, 0)
           /\ next_uid' = next_uid + 1
           /\ ev' = [NoEv EXCEPT !.op = "create", !.slot = w2.last,
                                  !.born = TRUE,
                                  !.realloc = (g_count = g_capacity)]
           /\ api' = api + 1
    /\ UNCHANGED <<snapshot_vars, g_cycle, g_epoch, g_state, g_last_changed_address,
                   g_last_changed_process, pc, pidx, tick_start, tick_capacity, trace>>

\* sal_proc_kill()
ProcKill ==
    /\ pc = "idle"
    /\ api < MaxApi
    /\ g_cycle <= ApiUntil
    /\ g_count # 0
    /\ \E w2 \in {proc_kill(W)} : SetW(w2)
    /\ uid' = [uid EXCEPT ![g_first] = 0]
    /\ ev' = [NoEv EXCEPT !.op = "kill", !.slot = g_first, !.freed = TRUE]
    /\ api' = api + 1
    /\ UNCHANGED <<snapshot_vars, g_cycle, g_epoch, g_state, g_last_changed_address,
                   g_last_changed_process, pc, pidx, next_uid, tick_start,
                   tick_capacity, trace>>

\* the clock of sal_main_cycle
\* a plausible slip of the clock: the test for zero comes before the increment
ClockTicksTestFirst ==
    /\ g_cycle' = u32_add(g_cycle, 1)
    /\ g_epoch' = IF g_cycle = 0 THEN u32_add(g_epoch, 1) ELSE g_epoch

ClockTicks ==
    /\ g_cycle' = u32_add(g_cycle, 1)
    /\ g_epoch' = IF u32_add(g_cycle, 1) = 0 THEN u32_add(g_epoch, 1) ELSE g_epoch

\* sal_main_cycle() with at least one process, up to the first proc_cycle
\* call of _sal_proc_cycle (_sal_mem_cycle only asserts)
MainCycle ==
    /\ pc = "idle"
    /\ g_cycle < MaxCycle
    /\ g_count # 0
    /\ ClockTicks
    /\ \E r \in {evo_cycle(E, W)} :
           /\ SetE(r.e)
           /\ SetW(r.w)
           /\ pc' = "run"
           /\ pidx' = r.w.last
           /\ tick_start' = [i \in 1 .. g_count |->
                                uid[QueueSlots(g_count, g_capacity, g_first)[i]]]
           /\ tick_capacity' = g_capacity
           /\ trace' = <<>>
           /\ ev' = [NoEv EXCEPT !.op = "cycle",
                                  !.ray = (r.w.memory # g_memory)]
    /\ UNCHANGED <<uid, next_uid, api, snapshot_vars>>

\* what a division by zero may yield where it does not trap
DivZeroQuotients == {0, UINT32_MAX}

\* sal_main_cycle() with no process: _sal_evo_cycle divides by zero, which
\* either kills the program or yields some quotient; _sal_proc_cycle then
\* does nothing
MainCycleNoProc ==
    /\ pc = "idle"
    /\ g_cycle < MaxCycle
    /\ g_count = 0
    /\ ClockTicks
    /\ \/ /\ pc' = "trap"
          /\ SetE(generate_random_number(generate_random_number(E).e).e)
          /\ UNCHANGED <<g_memory, g_inst_counter, g_allocated_count, g_count,
                         g_capacity, g_first, g_last, g_procs>>
          /\ ev' = [NoEv EXCEPT !.op = "trap"]
       \/ /\ pc' = "idle"
          /\ \E q \in DivZeroQuotients :
               \E r \in {evo_cycle_div_zero(E, W, q)} :
                   /\ SetE(r.e)
                   /\ SetW(r.w)
                   /\ ev' = [NoEv EXCEPT !.op = "cycle",
                                          !.ray = (r.w.memory # g_memory)]
    /\ tick_start' = <<>>
    /\ tick_capacity' = g_capacity
    /\ trace' = <<>>
    /\ UNCHANGED <<pidx, uid, next_uid, api, snapshot_vars>>

\* what _sal_comm_receive may return.  The descriptor is opened O_RDWR |
\* O_NONBLOCK, so read() on the empty pipe returns -1, which `if (res)` takes
\* for a byte read: the value returned is the uninitialised `inst`, any byte.
Received == 0 .. 255

\* a plausible slip of the scheduler's step: the index goes up, not down
next_pidx_upward(p, capacity) == u32_mod(u32_add(p, 1), capacity)

\* pidx--; pidx %= g_capacity
next_pidx(p, capacity) == u32_mod(u32_sub(p, 1), capacity)

\* one iteration of the scheduling loop of _sal_proc_cycle: proc_cycle(pidx),
\* then the loop test and the step to the next older slot
ProcStep ==
    /\ pc = "run"
    /\ \E received \in IF sal_mem_get_inst(W, g_procs[pidx].ip) = RECV
                        THEN Received ELSE {NOP0} :
         \E w2 \in {proc_cycle(W, pidx, received)} :
             /\ SetW(w2)
             /\ uid' = UidAfterBirth(W, w2, pidx)
             /\ next_uid' = IF w2.count = g_count THEN next_uid ELSE next_uid + 1
             /\ trace' = Append(trace, uid[pidx])
             /\ ev' = [NoEv EXCEPT
                          !.op = "step", !.slot = pidx,
                          !.inst = sal_mem_get_inst(W, g_procs[pidx].ip),
                          !.born = (w2.count # g_count),
                          !.realloc = (w2.capacity # g_capacity),
                          !.freed = (w2.allocated_count < g_allocated_count),
                          !.wrote = (w2.memory # g_memory
                                     /\ w2.allocated_count = g_allocated_count)]
             /\ IF pidx # w2.first
                THEN /\ pidx' = next_pidx(pidx, w2.capacity)
                     /\ pc' = "run"
                ELSE /\ pidx' = pidx
                     /\ pc' = "reap"
    /\ UNCHANGED <<snapshot_vars, g_cycle, g_epoch, g_state, g_last_changed_address,
                   g_last_changed_process, tick_start, tick_capacity, api>>

\* one iteration of the reaping loop of _sal_proc_cycle
Reap ==
    /\ pc = "reap"
    /\ sal_mem_is_over_capacity(W)
    /\ \E w2 \in {proc_kill(W)} : SetW(w2)
    /\ uid' = [uid EXCEPT ![g_first] = 0]
    /\ ev' = [NoEv EXCEPT !.op = "reap", !.slot = g_first, !.freed = TRUE]
    /\ UNCHANGED <<snapshot_vars, g_cycle, g_epoch, g_state, g_last_changed_address,
                   g_last_changed_process, pc, pidx, next_uid, tick_start,
                   tick_capacity, trace, api>>

\* the reaping loop ends and sal_main_cycle returns
CycleEnd ==
    /\ pc = "reap"
    /\ ~sal_mem_is_over_capacity(W)
    /\ pc' = "idle"
    /\ ev' = [NoEv EXCEPT !.op = "end"]
    /\ UNCHANGED <<snapshot_vars, g_cycle, g_epoch, g_memory, g_inst_counter, g_allocated_count,
                   g_state, g_last_changed_address, g_last_changed_process,
                   g_count, g_capacity, g_first, g_last, g_procs, pidx,
                   uid, next_uid, tick_start, tick_capacity, trace, api>>

Next ==
    \/ \E b \in CreateBlocks : ProcCreate(b[1], b[2])
    \/ ProcKill
    \/ MainCycle
    \/ MainCycleNoProc
    \/ ProcStep
    \/ Reap
    \/ CycleEnd

Spec == Init /\ [][Next]_vars

(***************************************************************************)
(* Runs of hand-made processes: a genome is written to the arena, one or   *)
(* two processes are created on it before the first cycle, and the         *)
(* simulation cycles.  The genomes walk the interpreter through its        *)
(* faults and through searches that find nothing.                          *)
(***************************************************************************)
\* operands that are missing: a non-modifier after INCN and after PSHN, a
\* third operand of SUMN that is a template, and INCN in the last cell
NoOperand == <<INCN, NOP0, PSHN, SUMN, MODA, MODB, NOP1, INCN>>

\* rax = 1, then rax = rax / rcx with rcx = 0
DivZero == <<UNIT, MODA, DIVN, MODA, MODA, MODC, NOP0, NOP0>>

\* an allocation of size 0, then SWAP and SPLT without a child block
NoChild == <<MALF, MODA, MODB, SWAP, SPLT, NOP0, NOP0, NOP0>>

\* a child block of one cell allocated forward at cell 2, then a backward
\* allocation of two cells asked for with the seeker at cell 5
Misaligned == <<UNIT, MODA, MALF, MODA, MODB, MALB, MODB, MODA>>

\* rax = UINT32_MAX, then a LOAD from that address and a SEND of that value
BadArgs == <<DECN, MODA, LOAD, MODA, MODB, SEND, MODA, NOP0>>

\* rbx = UINT32_MAX, then a WRTE of that value and a WRTE to that address
BadWrite == <<DECN, MODB, WRTE, MODA, MODB, WRTE, MODB, MODA>>

\* a backward jump to the complement of the template NOP0, which no cell
\* before it holds
Seeker == <<NOP0, JMPB, NOP0, MODA, NOP0, NOP0, NOP0, NOP0>>

UnitWorlds ==
    { <<g, QuietSeed>> : g \in {Replicator, Writer, NoOperand, DivZero, NoChild,
                                Misaligned, BadArgs, BadWrite, Seeker} }

\* the clock at the start of a run: a fresh simulation, or one three cycles
\* before g_cycle wraps
ClockStarts == {0, u32_sub(UINT32_MAX, 2)}

UnitInit == InitFrom(UnitWorlds, ClockStarts)

\* the processes created before the first cycle
UnitCreates == { <<0, 1>>, <<1, 3>>, <<7, 1>>, <<0, 4>> }

UnitProcs == 2

UnitCreate(address, mb1s) ==
    /\ ev.op \in {"init", "create"}
    /\ g_count < UnitProcs
    /\ ProcCreate(address, mb1s)

UnitNext ==
    \/ \E b \in UnitCreates : UnitCreate(b[1], b[2])
    \/ MainCycle
    \/ ProcStep
    \/ Reap
    \/ CycleEnd

UnitSpec == UnitInit /\ [][UnitNext]_vars

(***************************************************************************)
(* Runs with snapshots: sal_main_save, sal_main_quit and sal_main_load     *)
(* between the ticks of hand-made processes.                               *)
(***************************************************************************)
Core ==
    [init |-> g_is_init, cycle |-> g_cycle, epoch |-> g_epoch,
     hdr |-> g_mem_hdr, w |-> W, e |-> E]

SetCore(c) ==
    /\ g_is_init' = c.init
    /\ g_cycle' = c.cycle
    /\ g_epoch' = c.epoch
    /\ g_mem_hdr' = c.hdr
    /\ SetW(c.w)
    /\ SetE(c.e)

\* snapshots are written up to this cycle
SaveUntil == 1

\* sal_main_save(file_name)
Save ==
    /\ pc = "idle"
    /\ g_is_init.main
    /\ g_cycle <= SaveUntil
    /\ file' = sal_main_save(Core)
    /\ saved' = <<[core |-> Core, uid |-> uid, next_uid |-> next_uid]>>
    /\ ev' = [NoEv EXCEPT !.op = "save"]
    /\ UNCHANGED <<g_cycle, g_epoch, g_memory, g_inst_counter, g_allocated_count,
                   g_state, g_last_changed_address, g_last_changed_process,
                   g_count, g_capacity, g_first, g_last, g_procs, pc, pidx,
                   uid, next_uid, tick_start, tick_capacity, trace, api,
                   g_is_init, g_mem_hdr>>

\* sal_main_quit()
Quit ==
    /\ pc = "idle"
    /\ g_is_init.main
    /\ SetCore(QuitCore)
    /\ pc' = "quit"
    /\ pidx' = 0
    /\ uid' = <<>>
    /\ next_uid' = 1
    /\ tick_start' = <<>>
    /\ tick_capacity' = 0
    /\ trace' = <<>>
    /\ ev' = [NoEv EXCEPT !.op = "quit"]
    /\ UNCHANGED <<file, saved, api>>

\* sal_main_load(file_name) of the file as it was written
Load ==
    /\ pc = "quit"
    /\ ~g_is_init.main
    /\ file # <<>>
    /\ \E c \in {sal_main_load(file, Core)} :
           /\ SetCore(c)
           /\ tick_capacity' = c.w.capacity
    /\ pc' = "idle"
    /\ uid' = saved[1].uid
    /\ next_uid' = saved[1].next_uid
    /\ ev' = [NoEv EXCEPT !.op = "load"]
    /\ UNCHANGED <<pidx, tick_start, trace, file, saved, api>>

\* sal_main_load(file_name) of the file cut short: it holds the first k items
LoadShort ==
    /\ pc = "quit"
    /\ ~g_is_init.main
    /\ file # <<>>
    /\ \E f \in { SubSeq(file, 1, k) : k \in 0 .. (Len(file) - 1) } :
           /\ file' = f
           /\ \E c \in {sal_main_load(f, Core)} :
                  /\ SetCore(c)
                  /\ tick_capacity' = c.w.capacity
    /\ pc' = "failed"
    /\ ev' = [NoEv EXCEPT !.op = "load"]
    /\ UNCHANGED <<pidx, uid, next_uid, tick_start, trace, saved, api>>

SaveInit == InitFrom({ <<Replicator, RaySeed>>, <<Writer, QuietSeed>> }, {0})

SaveNext ==
    \/ \E b \in UnitCreates : UnitCreate(b[1], b[2])
    \/ MainCycle
    \/ ProcStep
    \/ Reap
    \/ CycleEnd
    \/ Save
    \/ Quit
    \/ Load
    \/ LoadShort

SaveSpec == SaveInit /\ [][SaveNext]_vars

(***************************************************************************)
(* Runs of single instructions: jumps and address searches, allocation,    *)
(* SWAP and the arithmetic of three registers, on hand-made genomes.       *)
(***************************************************************************)
OpWorlds ==
    { <<g, QuietSeed>> : g \in
        { \* a jump whose template alternates up to the end of the arena
          <<JMPF, NOP0, NOP1, NOP0, NOP1, NOP0, NOP0, NOP0>>,
          \* a jump forward to the complement, at 4, of the template at 1..2
          <<JMPF, NOP0, NOP1, MODA, NOP1, NOP0, MODA, NOP0>>,
          \* a jump backward to the complement, at 0, of the template at 2
          <<NOP1, JMPB, NOP0, MODA, NOP0, NOP0, NOP0, NOP0>>,
          \* rbx = the address, 4, of the complement of the template at 2
          <<ADRF, MODB, NOP0, MODA, NOP1, NOP0, NOP0, NOP0>>,
          \* rbx = the address, 1, of the complement of the template at 4
          <<MODA, NOP1, ADRB, MODB, NOP0, MODA, NOP0, NOP0>>,
          \* from address 1: rax = the opcode of cell 0, found backward, then
          \* a LOAD from, or a WRTE to, the address rax, found forward
          <<MODD, LOAD, MODA, MODA, LOAD, MODA, MODB, NOP0>>,
          <<JMPB, LOAD, MODA, MODA, WRTE, MODA, MODB, NOP1>>,
          \* from address 1: a WRTE to address 0, found backward
          Writer,
          \* an ADRF without a modifier, an ADRB without a template
          <<ADRF, NOP0, ADRB, MODA, MODA, NOP0, NOP0, NOP0>>,
          \* a child of one cell allocated backward, its address asked for in
          \* rax, which holds 1
          <<NOP0, UNIT, MODA, MALB, MODA, MODA, NOP0, NOP0>>,
          \* children of 2^32 - 1 cells asked for: backward from 2, backward
          \* from 4, forward from 2
          <<DECN, MODA, MALB, MODA, MODB, NOP0, NOP0, NOP0>>,
          <<NOP0, DECN, MODA, NOP0, MALB, MODA, MODB, NOP0>>,
          <<DECN, MODA, MALF, MODA, MODB, NOP0, NOP0, NOP0>>,
          \* a child of one cell, then two SWAPs
          <<UNIT, MODA, MALF, MODA, MODB, SWAP, SWAP, NOP0>>,
          \* rbx = rax * rax, rax = rax + rax, rcx = rax - rax with rax = 2^32 - 1
          <<DECN, MODA, MULN, MODB, MODA, MODA, NOP0, NOP0>>,
          <<DECN, MODA, SUMN, MODA, MODA, MODA, NOP0, NOP0>>,
          <<DECN, MODA, SUBN, MODC, MODA, MODA, NOP0, NOP0>>,
          \* rbx = 0 - 1
          <<UNIT, MODA, SUBN, MODB, MODB, MODA, NOP0, NOP0>>,
          \* rcx = (2^32 - 1) / 1, rcx = 1 / (2^32 - 1), rax = 1 / 0
          <<DECN, MODA, UNIT, MODB, DIVN, MODC, MODA, MODB>>,
          <<DECN, MODA, UNIT, MODB, DIVN, MODC, MODB, MODA>>,
          DivZero,
          \* cells without an operation, the last one at the last address
          <<EATB, EATF, MODC, MODD, NOP1, NOP0, EATB, EATF>> } }

OpInit == InitFrom(OpWorlds, {0})

OpSpec == OpInit /\ [][UnitNext]_vars

(***************************************************************************)
(* A third closed system: a host that only seeds one-cell organisms, as    *)
(* many as QueueProcs, and kills the oldest.  It shows how the reaper queue *)
(* grows when every process owns memory.                                   *)
(***************************************************************************)
QueueProcs == 5

\* sal_proc_create(address, 1)
QueueCreate(address) ==
    /\ pc = "idle"
    /\ g_count < QueueProcs
    /\ sal_mem_is_address_valid(address)
    /\ block_is_free_and_valid(W, address, 1)
    /\ \E w2 \in {sal_proc_create(W, address, 1)} :
           /\ SetW(w2)
           /\ uid' = UidAfterBirth(W, w2, 0)
           /\ next_uid' = next_uid + 1
           /\ ev' = [NoEv EXCEPT !.op = "create", !.slot = w2.last,
                                  !.born = TRUE,
                                  !.realloc = (g_count = g_capacity)]
    /\ UNCHANGED <<snapshot_vars, g_cycle, g_epoch, g_state, g_last_changed_address,
                   g_last_changed_process, pc, pidx, api, tick_start, tick_capacity,
                   trace>>

QueueNext ==
    \/ \E a \in 0 .. (QueueProcs - 1) : QueueCreate(a)
    \/ ProcKill

QueueInit == InitFrom({ <<Replicator, QuietSeed>> }, {0})

QueueSpec == QueueInit /\ [][QueueNext]_vars

(***************************************************************************)
(* realloc_queue as a function of the queue and of queue_lock: the host of *)
(* QueueSpec fills the queue in every rotation, and one last step applies  *)
(* realloc_queue to a full queue with any queue_lock below the capacity.   *)
(***************************************************************************)
ReallocAny ==
    /\ pc = "idle"
    /\ g_count = g_capacity
    /\ \E queue_lock \in 0 .. (g_capacity - 1) :
         \E w2 \in {realloc_queue(W, queue_lock)} :
             /\ SetW(w2)
             /\ uid' = realloc_copy(uid, 0, g_capacity, g_first, g_last,
                                    queue_lock).queue
             /\ ev' = [NoEv EXCEPT !.op = "realloc", !.slot = queue_lock,
                                    !.realloc = TRUE]
    /\ pc' = "realloc"
    /\ UNCHANGED <<snapshot_vars, g_cycle, g_epoch, g_state, g_last_changed_address,
                   g_last_changed_process, pidx, next_uid, api, tick_start,
                   tick_capacity, trace>>

ReallocNext ==
    \/ \E a \in 0 .. (QueueProcs - 1) : QueueCreate(a)
    \/ ProcKill
    \/ ReallocAny

ReallocSpec == QueueInit /\ [][ReallocNext]_vars

(***************************************************************************)
(* A fourth closed system: the host of Spec, which may also seed a record  *)
(* of size zero, over an organism that allocates a child and swaps twice.  *)
(***************************************************************************)
ZeroInit ==
    InitWith({ <<<<NOP0, UNIT, MODA, MALF, MODA, MODB, SWAP, SWAP>>, QuietSeed>> })

ZeroSpec == ZeroInit /\ [][Next]_vars

(***************************************************************************)
(* A fifth closed system: the host of Spec over the replicator, over an     *)
(* organism that receives from the empty pipe at address 4 and loops       *)
(* before it, and over one whose JMPF at address 1 finds no complement,    *)
(* under a generator that draws no valid address in the first two ticks    *)
(* and address 1 and JMPB in the third.                                    *)
(***************************************************************************)
SeekSeed == <<1986340166, 2016491286, 1425495465, 273478338>>

SeekInit ==
    InitWith({ <<<<NOP0, JMPF, NOP0, NOP0, NOP0, NOP0, NOP0, NOP0>>, SeekSeed>>,
               <<Replicator, QuietSeed>>,
               <<<<NOP0, JMPB, NOP1, NOP0, RECV, MODA, ZERO, MODA>>, QuietSeed>> })

SeekSpec == SeekInit /\ [][Next]_vars

(***************************************************************************)
(* The validators of the code (proc_is_valid, module_is_valid of           *)
(* process.c and of memory.c) as operators on the state                    *)
(***************************************************************************)
\* the slots that sal_proc_is_free reports as holding a living process
Live(w) == {i \in DOMAIN w.procs : ~sal_proc_is_free(w, i)}

\* the slots from g_first to g_last, the g_count slots the queue counts
InQueue(w) ==
    {QueueSlots(w.count, w.capacity, w.first)[i] : i \in 1 .. w.count}

RECURSIVE block_is_allocated_from(_, _, _, _)
block_is_allocated_from(w, address, size, offset) ==
    IF ~u32_lt(offset, size) THEN TRUE
    ELSE /\ sal_mem_is_address_valid(u32_add(offset, address))
         /\ sal_mem_is_allocated(w, u32_add(offset, address))
         /\ block_is_allocated_from(w, address, size, u32_add(offset, 1))

block_is_allocated(w, address, size) ==
    block_is_allocated_from(w, address, size, 0)

\* the sum module_is_valid compares with sal_mem_get_allocated(); the block
\* sizes are at most the size of the arena, so the sum does not wrap
RECURSIVE alloc_count_from(_, _, _)
alloc_count_from(w, i, alloc_count) ==
    IF ~u32_lt(i, w.capacity) THEN alloc_count
    ELSE alloc_count_from(w, u32_add(i, 1),
             IF sal_proc_is_free(w, i) THEN alloc_count
             ELSE alloc_count + w.procs[i].mb1s + w.procs[i].mb2s)

\* the cells of the block of `size` cells at `address`
Block(address, size) ==
    {a \in Addrs : u32_le(address, a) /\ u32_lt(u32_sub(a, address), size)}

\* the blocks of the living processes: <<slot, 1>> the parent block,
\* <<slot, 2>> the child block where there is one
Blocks(w) ==
    {<<i, 1>> : i \in Live(w)}
        \cup {<<i, 2>> : i \in {j \in Live(w) : w.procs[j].mb2s # 0}}

Cells(w, b) ==
    IF b[2] = 1 THEN Block(w.procs[b[1]].mb1a, w.procs[b[1]].mb1s)
    ELSE Block(w.procs[b[1]].mb2a, w.procs[b[1]].mb2s)

\* the sum inst_count_is_correct compares with the size; it asserts each
\* counter to be at most the size, so the sum does not wrap
RECURSIVE inst_counter_sum(_, _, _)
inst_counter_sum(w, i, sum) ==
    IF i = INST_COUNT THEN sum
    ELSE inst_counter_sum(w, i + 1, sum + w.inst_counter[i])

(***************************************************************************)
(* Properties                                                              *)
(***************************************************************************)
\* C1: in every reachable state the sum over the live process slots of
\* mb1s + mb2s equals the arena's allocated counter.
C1_AllocatedIsSumOfBlocks == alloc_count_from(W, 0, 0) = g_allocated_count

\* C2: in every reachable state the allocated counter equals the number of
\* cells whose ALLOCATED bit is set.
C2_AllocatedCountsFlags ==
    g_allocated_count = Cardinality({a \in Addrs : sal_mem_is_allocated(W, a)})

\* a MALB step has just freed a partial child block while other cells stay
\* allocated
C2_Witness ==
    /\ ev.op = "step"
    /\ ev.inst = MALB
    /\ ev.freed
    /\ g_allocated_count > 0

\* C3: at the start of every cycle, every live slot has valid ip and sp, a
\* parent block whose cells are all allocated and, if it has a child block,
\* a child block whose cells are all allocated, at another address than the
\* parent block.
C3_LiveProcsValid ==
    pc = "idle" =>
        \A i \in Live(W) :
            /\ sal_mem_is_address_valid(g_procs[i].ip)
            /\ sal_mem_is_address_valid(g_procs[i].sp)
            /\ block_is_allocated(W, g_procs[i].mb1a, g_procs[i].mb1s)
            /\ g_procs[i].mb2s # 0 =>
                   /\ block_is_allocated(W, g_procs[i].mb2a, g_procs[i].mb2s)
                   /\ g_procs[i].mb1a # g_procs[i].mb2a

\* a cycle may start with two living processes, one of them owning a child
\* block
C3_Witness ==
    /\ pc = "idle"
    /\ g_cycle < MaxCycle
    /\ Cardinality(Live(W)) >= 2
    /\ \E i \in Live(W) : g_procs[i].mb2s # 0

\* C4: in every reachable state the blocks of the live processes are
\* pairwise disjoint, every allocated cell lies in exactly one of them, and
\* no two live slots with a child block have the same mb2a.
C4_BlocksDisjointOneOwner ==
    /\ \A b1 \in Blocks(W) : \A b2 \in Blocks(W) :
           b1 # b2 => Cells(W, b1) \cap Cells(W, b2) = {}
    /\ \A a \in Addrs :
           sal_mem_is_allocated(W, a) =>
               Cardinality({b \in Blocks(W) : a \in Cells(W, b)}) = 1
    /\ \A i \in Live(W) : \A j \in Live(W) :
           (i # j /\ g_procs[i].mb2s # 0 /\ g_procs[j].mb2s # 0) =>
               g_procs[i].mb2a # g_procs[j].mb2a

\* C5: in every reachable state each counter inst_count[v] equals the number
\* of cells whose low five bits are v, and the 32 counters sum to the size.
C5_InstCountersExact ==
    /\ \A v \in 0 .. (INST_COUNT - 1) :
           g_inst_counter[v] =
               Cardinality({a \in Addrs : sal_mem_get_inst(W, a) = v})
    /\ inst_counter_sum(W, 0, 0) = g_size

\* a cosmic ray has just replaced the NOP0 at address 7 by NOP1
C5_Witness ==
    /\ ev.op = "cycle"
    /\ ev.ray
    /\ g_last_changed_address = 7
    /\ sal_mem_get_inst(W, 7) = NOP1

\* C6: in every reachable state a queue slot has mb1s = 0 if and only if
\* every field of its record is zero, and every slot the queue counts as
\* live has mb1s > 0.
C6_FreeIffAllZero ==
    /\ \A i \in DOMAIN g_procs :
           (g_procs[i].mb1s = 0) <=> (g_procs[i] = ZeroProc)
    /\ \A i \in InQueue(W) : g_procs[i].mb1s # 0

\* C7: in every reachable state the queue is well-formed: empty with both
\* indices UINT32_MAX, or first and last below the capacity,
\* count = ((last - first) mod capacity) + 1 <= capacity, the slots from
\* first to last exactly the live slots and every other slot free.
C7_QueueWellFormed ==
    IF g_count = 0
    THEN g_first = UINT32_MAX /\ g_last = UINT32_MAX
    ELSE /\ u32_lt(g_first, g_capacity)
         /\ u32_lt(g_last, g_capacity)
         /\ g_count = u32_add(u32_mod(u32_sub(g_last, g_first), g_capacity), 1)
         /\ u32_le(g_count, g_capacity)
         /\ InQueue(W) = Live(W)
         /\ \A i \in DOMAIN g_procs \ InQueue(W) : sal_proc_is_free(W, i)

\* the slots older than slot p, oldest first: from first up to the slot
\* before p
OlderSlots(first, capacity, p) ==
    QueueSlots(u32_mod(u32_sub(p, first), capacity), capacity, first)

\* the value of ip and sp after increment_ip
IpAfter(ip) ==
    IF sal_mem_is_address_valid(u32_add(ip, 1)) THEN u32_add(ip, 1) ELSE ip

\* the process at pidx is about to execute a SPLT that gives birth while the
\* queue is full
SplitReallocates ==
    /\ pc = "run"
    /\ sal_mem_get_inst(W, g_procs[pidx].ip) = SPLT
    /\ g_procs[pidx].mb2s # 0
    /\ g_count = g_capacity

\* C8: when a SPLT executed by the process in slot k reallocates the queue,
\* the parent's record is at index k of the doubled queue with its child
\* block cleared and its ip advanced, the child's record is the new last
\* slot, and the slots the scheduler has still to visit, from k - 1 down to
\* first, hold exactly the records of the older processes not yet executed.
C8_ParentKeepsIndex ==
    [][SplitReallocates =>
          /\ g_capacity' = u32_mul(g_capacity, 2)
          /\ uid'[pidx] = uid[pidx]
          /\ g_procs'[pidx] =
                 [g_procs[pidx] EXCEPT !.mb2a = 0, !.mb2s = 0,
                                       !.ip = IpAfter(g_procs[pidx].ip),
                                       !.sp = IpAfter(g_procs[pidx].ip)]
          /\ g_procs'[g_last'] =
                 [ZeroProc EXCEPT !.mb1a = g_procs[pidx].mb2a,
                                  !.mb1s = g_procs[pidx].mb2s,
                                  !.ip = g_procs[pidx].mb2a,
                                  !.sp = g_procs[pidx].mb2a]
          /\ Len(OlderSlots(g_first', g_capacity', pidx))
                 = Len(OlderSlots(g_first, g_capacity, pidx))
          /\ \A i \in 1 .. Len(OlderSlots(g_first, g_capacity, pidx)) :
                 /\ g_procs'[OlderSlots(g_first', g_capacity', pidx)[i]]
                        = g_procs[OlderSlots(g_first, g_capacity, pidx)[i]]
                 /\ uid'[OlderSlots(g_first', g_capacity', pidx)[i]]
                        = uid[OlderSlots(g_first, g_capacity, pidx)[i]]
          /\ IF pidx = g_first
             THEN pc' = "reap" /\ g_first' = pidx
             ELSE /\ pc' = "run"
                  /\ pidx' = OlderSlots(g_first', g_capacity', pidx)
                                 [Len(OlderSlots(g_first', g_capacity', pidx))]
    ]_vars

\* a SPLT in slot 0 has just reallocated a queue that wraps: the older
\* process was copied below slot 0 under the new capacity, and is the next
\* to execute
C8_Witness ==
    /\ ev.op = "step"
    /\ ev.inst = SPLT
    /\ ev.realloc
    /\ ev.slot = 0
    /\ pc = "run"
    /\ pidx = g_first
    /\ g_first = g_capacity - 1

\* C9: in every process tick each process live at the start of the tick
\* executes exactly one proc_cycle step, newest first and oldest last: the
\* steps taken so far are the first of the reversed starting queue, the
\* scheduler stands on the process that comes next in it, and when the loop
\* ends all have run.
C9_OneStepEachNewestFirst ==
    /\ \A i \in 1 .. Len(tick_start) : \A j \in 1 .. Len(tick_start) :
           i # j => tick_start[i] # tick_start[j]
    /\ pc = "run" =>
           /\ Len(trace) < Len(tick_start)
           /\ trace = SubSeq(Reverse(tick_start), 1, Len(trace))
           /\ uid[pidx] = Reverse(tick_start)[Len(trace) + 1]
    /\ pc = "reap" => trace = Reverse(tick_start)

\* a tick's loop has ended in which the queue was reallocated by a birth and
\* an older process executed after it
C9_Witness ==
    /\ pc = "reap"
    /\ ev.op = "step"
    /\ ~ev.born
    /\ g_capacity # tick_capacity
    /\ Len(trace) >= 2

\* the birth numbers of the processes born since the tick began
BornThisTick == {uid[i] : i \in InQueue(W)} \ {tick_start[i] : i \in 1 .. Len(tick_start)}

\* the slots the scheduler stands on or has still to visit
ToVisit ==
    {pidx} \cup {OlderSlots(g_first, g_capacity, pidx)[i] :
                    i \in 1 .. Len(OlderSlots(g_first, g_capacity, pidx))}

NewbornHasNotRun ==
    pc \in {"run", "reap"} =>
        \A u \in BornThisTick :
            /\ \A i \in 1 .. Len(trace) : trace[i] # u
            /\ pc = "run" => \A i \in ToVisit : uid[i] # u

\* C10: a process born by SPLT during a tick executes nothing in that tick:
\* at its birth its slot, the new last, is outside the slots the scheduler
\* has still to visit, and while the tick lasts it is neither among the
\* processes that have run nor among those still to run.
C10_NewbornWaitsForNextTick ==
    /\ []NewbornHasNotRun
    /\ [][(pc = "run" /\ g_count' # g_count /\ pc' = "run") =>
              /\ uid'[g_last'] = next_uid
              /\ g_last' \notin {pidx'} \cup
                     {OlderSlots(g_first', g_capacity', pidx')[i] :
                         i \in 1 .. Len(OlderSlots(g_first', g_capacity', pidx'))}
         ]_vars

\* a process was born in this tick and the scheduler has since stepped an
\* older process
C10_Witness ==
    /\ pc \in {"run", "reap"}
    /\ ev.op = "step"
    /\ ~ev.born
    /\ BornThisTick # {}

\* the guard of Reap: the reaping loop's test holds
ReapEnabled == pc = "reap" /\ sal_mem_is_over_capacity(W)

\* The loops of _sal_proc_cycle are sequential code that keeps running once
\* entered: an enabled iteration of the reaping loop, or its exit, is taken.
\* This is weak fairness of Reap and of CycleEnd; for Reap it is written
\* out, with ReapEnabled for ENABLED <<Reap>>_vars.
FairSpec ==
    /\ Spec
    /\ ([]<>(~ReapEnabled) \/ []<><<Reap>>_vars)
    /\ WF_vars(CycleEnd)

\* the birth numbers in the queue, oldest slot first
QueueUids(count, capacity, first, u) ==
    [i \in 1 .. count |-> u[QueueSlots(count, capacity, first)[i]]]

\* a step of the reaping loop that kills a process
ReapKills == pc = "reap" /\ g_count' # g_count

StepInst == sal_mem_get_inst(W, g_procs[pidx].ip)

CellAfter(n) == u32_add(g_procs[pidx].ip, n)

HasMods(k) ==
    \A n \in 1 .. k :
        /\ sal_mem_is_address_valid(CellAfter(n))
        /\ sal_mem_get_inst(W, CellAfter(n)) \in {MODA, MODB, MODC, MODD}

Operand(n) == g_procs[pidx][RegOf(sal_mem_get_inst(W, CellAfter(n)))]

OperandCount ==
    CASE StepInst \in {ADRB, ADRF, INCN, DECN, ZERO, UNIT, NOTN, IFNZ, SEND,
                       RECV, PSHN, POPN} -> 1
      [] StepInst \in {MALB, MALF, LOAD, WRTE} -> 2
      [] StepInst \in {SUMN, SUBN, MULN, DIVN} -> 3
      [] OTHER -> 0

\* the cells of the two blocks of the process at pidx
OwnCells ==
    Block(g_procs[pidx].mb1a, g_procs[pidx].mb1s)
        \cup Block(g_procs[pidx].mb2a, g_procs[pidx].mb2s)

FaultNoOperand == ~HasMods(OperandCount)

FaultDivZero == StepInst = DIVN /\ HasMods(3) /\ Operand(3) = 0

FaultAllocZero == StepInst \in {MALB, MALF} /\ HasMods(2) /\ Operand(1) = 0

FaultAllocMisaligned ==
    /\ StepInst \in {MALB, MALF}
    /\ HasMods(2)
    /\ g_procs[pidx].mb2s # 0
    /\ g_procs[pidx].sp #
           (IF StepInst = MALF
            THEN u32_add(g_procs[pidx].mb2a, g_procs[pidx].mb2s)
            ELSE u32_sub(g_procs[pidx].mb2a, 1))

FaultNoChild == StepInst \in {SWAP, SPLT} /\ g_procs[pidx].mb2s = 0

FaultBadAddress ==
    /\ StepInst \in {LOAD, WRTE}
    /\ HasMods(2)
    /\ ~sal_mem_is_address_valid(Operand(1))

FaultBadInst == StepInst = WRTE /\ HasMods(2) /\ ~sal_is_inst(Operand(2))

\* the seeker of a WRTE has arrived at a cell allocated to another process
FaultNotWriteable ==
    /\ StepInst = WRTE
    /\ HasMods(2)
    /\ sal_mem_is_address_valid(Operand(1))
    /\ sal_is_inst(Operand(2))
    /\ g_procs[pidx].sp = Operand(1)
    /\ sal_mem_is_allocated(W, Operand(1))
    /\ Operand(1) \notin OwnCells

FaultSendBadInst == StepInst = SEND /\ HasMods(1) /\ ~sal_is_inst(Operand(1))

Faults ==
    \/ FaultNoOperand
    \/ FaultDivZero
    \/ FaultAllocZero
    \/ FaultAllocMisaligned
    \/ FaultNoChild
    \/ FaultBadAddress
    \/ FaultBadInst
    \/ FaultNotWriteable
    \/ FaultSendBadInst

\* C12: an instruction that faults leaves the arena, the queue and the
\* process's blocks, registers and stack as they were; only ip moves on by
\* one cell (staying put at the last address) and sp is set to it.
C12_FaultOnlyAdvancesIp ==
    [][(pc = "run" /\ Faults) =>
          /\ g_memory' = g_memory
          /\ g_inst_counter' = g_inst_counter
          /\ g_allocated_count' = g_allocated_count
          /\ g_count' = g_count
          /\ g_capacity' = g_capacity
          /\ g_first' = g_first
          /\ g_last' = g_last
          /\ g_procs' = [g_procs EXCEPT
                            ![pidx].ip = IpAfter(g_procs[pidx].ip),
                            ![pidx].sp = IpAfter(g_procs[pidx].ip)]
    ]_vars

\* a DIVN by zero has just faulted in a process whose dividend and
\* destination register rax is 1
C12_Witness ==
    /\ ev.op = "step"
    /\ ev.inst = DIVN
    /\ g_procs[ev.slot].rax = 1
    /\ g_procs[ev.slot].rcx = 0
    /\ g_procs[ev.slot].ip = 3

\* The step about to be taken is a template search that has a template to
\* look for, has found no complement of it at sp, and has no further cell to
\* move sp to in its direction.
SeekForward == StepInst \in {JMPF, ADRF}

SeekTemplate == IF StepInst \in {JMPB, JMPF} THEN CellAfter(1) ELSE CellAfter(2)

SeekHasTemplate ==
    /\ sal_mem_is_address_valid(SeekTemplate)
    /\ sal_is_template(sal_mem_get_inst(W, SeekTemplate))
    /\ StepInst \in {ADRB, ADRF} => HasMods(1)

SeekAtEnd ==
    /\ StepInst \in {JMPB, JMPF, ADRB, ADRF}
    /\ SeekHasTemplate
    /\ ~are_templates_complements(W, SeekTemplate, g_procs[pidx].sp)
    /\ ~sal_mem_is_address_valid(IF SeekForward
                                 THEN u32_add(g_procs[pidx].sp, 1)
                                 ELSE u32_sub(g_procs[pidx].sp, 1))

\* C13: a template search whose seeker pointer cannot move further in its
\* direction, with no complement found, faults in that step: ip moves on by
\* one cell.
C13_SeekAtEndFaults ==
    [][(pc = "run" /\ SeekAtEnd) =>
          g_procs'[pidx].ip = IpAfter(g_procs[pidx].ip)]_vars

\* a call of sal_main_cycle() while the queue holds no process
TickWithoutProcs == pc = "idle" /\ g_count = 0 /\ g_cycle' # g_cycle

\* C14: a tick with no process completes without a division by zero: the
\* call returns, no process is mutated, and nothing but the cosmic ray (the
\* generator's state, the last changed address, one cell and its two opcode
\* counters) changes.
C14_TickWithoutProcsCompletes ==
    [][TickWithoutProcs =>
          /\ pc' = "idle"
          /\ g_procs' = g_procs
          /\ g_last_changed_process' = g_last_changed_process
          /\ g_allocated_count' = g_allocated_count
          /\ <<g_count, g_capacity, g_first, g_last>>' =
                 <<g_count, g_capacity, g_first, g_last>>
    ]_vars

\* what sal_mem_set_inst(address, inst) makes, w2, of the current state
SetInstEffect(address, inst, old, w2) ==
    /\ w2.memory[address] % (INSTRUCTION_MASK + 1) = inst
    /\ w2.memory[address] \div (INSTRUCTION_MASK + 1)
           = g_memory[address] \div (INSTRUCTION_MASK + 1)
    /\ \A b \in Addrs \ {address} : w2.memory[b] = g_memory[b]
    /\ w2.allocated_count = g_allocated_count
    /\ w2.inst_counter =
           IF old = inst THEN g_inst_counter
           ELSE [g_inst_counter EXCEPT ![old] = u32_sub(@, 1),
                                       ![inst] = u32_add(@, 1)]
    /\ <<w2.count, w2.capacity, w2.first, w2.last, w2.procs>>
           = <<g_count, g_capacity, g_first, g_last, g_procs>>

\* C18: in every reachable state, for every valid address a and opcode i,
\* sal_mem_set_inst(a, i) takes one from the counter of the opcode at a, adds
\* one to the counter of i, puts i in the low five bits of cell a, keeps the
\* ALLOCATED bit of cell a, and changes no other cell nor the allocated
\* counter; when the opcode at a is i already no counter changes.
C18_SetInstFrame ==
    \A address \in Addrs : \A inst \in 0 .. (INST_COUNT - 1) :
        \A w2 \in {sal_mem_set_inst(W, address, inst)} :
            SetInstEffect(address, inst, sal_mem_get_inst(W, address), w2)

\* a WRTE has just replaced the NOP1 of the allocated cell 0 by NOP0
C18_Witness ==
    /\ ev.op = "step"
    /\ ev.inst = WRTE
    /\ ev.wrote
    /\ sal_mem_is_allocated(W, 0)
    /\ sal_mem_get_inst(W, 0) = NOP0
    /\ g_inst_counter[NOP1] = 0

\* C19: a WRTE step of a process changes the opcode of a cell only if that
\* cell was, before the step, unallocated or inside one of the process's own
\* two blocks; a WRTE that has arrived at a cell allocated to another process
\* leaves the arena as it was and moves ip on; no WRTE step changes an
\* ALLOCATED bit.
C19_WriteOnlyWhereWriteable ==
    [][(pc = "run" /\ StepInst = WRTE) =>
          /\ \A a \in Addrs :
               g_memory'[a] % (INSTRUCTION_MASK + 1) # sal_mem_get_inst(W, a)
                   => (~sal_mem_is_allocated(W, a) \/ a \in OwnCells)
          /\ \A a \in Addrs :
               g_memory'[a] \div (INSTRUCTION_MASK + 1)
                   = g_memory[a] \div (INSTRUCTION_MASK + 1)
          /\ g_allocated_count' = g_allocated_count
          /\ FaultNotWriteable =>
                 /\ g_memory' = g_memory
                 /\ g_inst_counter' = g_inst_counter
                 /\ g_procs'[pidx].ip = IpAfter(g_procs[pidx].ip)
    ]_vars

\* the WRTE at address 1 has arrived at cell 0, which belongs to another
\* process, and has moved on leaving its NOP1 in place
C19_Witness ==
    /\ ev.op = "step"
    /\ ev.inst = WRTE
    /\ g_procs[ev.slot].ip = 2
    /\ g_procs[ev.slot].rax = 0
    /\ g_procs[ev.slot].rbx = NOP0
    /\ sal_mem_is_allocated(W, 0)
    /\ sal_mem_get_inst(W, 0) = NOP1
    /\ 0 \notin Block(g_procs[ev.slot].mb1a, g_procs[ev.slot].mb1s)
    /\ 0 \notin Block(g_procs[ev.slot].mb2a, g_procs[ev.slot].mb2s)

\* The clock as a 64-bit number, least significant 16-bit limb first, and
\* that number plus one.
Clock64 == <<Lo(g_cycle), Hi(g_cycle), Lo(g_epoch), Hi(g_epoch)>>

RECURSIVE Succ64(_, _)
Succ64(limbs, i) ==
    IF i > Len(limbs) THEN limbs
    ELSE IF limbs[i] # HALF - 1 THEN [limbs EXCEPT ![i] = @ + 1]
    ELSE Succ64([limbs EXCEPT ![i] = 0], i + 1)

\* a step that is a call of sal_main_cycle()
IsTick == pc = "idle" /\ ev'.op \in {"cycle", "trap"}

\* C20: a call of sal_main_cycle() adds exactly one to the 64-bit number
\* epoch * 2^32 + cycle (cycle goes up modulo 2^32, epoch goes up exactly
\* when cycle becomes zero); no other step changes the clock.
C20_Clock64AddsOne ==
    [][IF IsTick
       THEN /\ Clock64' = Succ64(Clock64, 1)
            /\ g_cycle' = u32_add(g_cycle, 1)
            /\ g_epoch' # g_epoch <=> g_cycle' = 0
       ELSE /\ g_cycle' = g_cycle
            /\ g_epoch' = g_epoch
    ]_vars

\* the tick in which cycle went from 2^32 - 1 to zero
C20_Witness == ev.op = "cycle" /\ g_cycle = 0 /\ g_epoch = 1

\* C15: (a) in every initialized state between two API calls, loading what
\* sal_main_save writes into the state sal_main_quit leaves gives back the
\* whole state: cycle, epoch, the arena and its counters, allocated,
\* capacity, the generator and the last-changed fields, the queue and every
\* process record; (b) the state a sal_main_load has just produced is the
\* state in which the file was written, so the ticks that follow are those
\* that followed the save.
C15_SaveQuitLoadRestores ==
    /\ (pc = "idle" /\ g_is_init.main) =>
           sal_main_load(sal_main_save(Core), QuitCore) = Core
    /\ (pc = "idle" /\ ev.op = "load") =>
           /\ Core = saved[1].core
           /\ g_mem_hdr.size = g_size
           /\ g_mem_hdr.capacity = g_mem_capacity

\* a snapshot written after a tick, in which a cosmic ray struck address 7
\* and a process owns cells, has just been loaded
C15_Witness ==
    /\ pc = "idle"
    /\ ev.op = "load"
    /\ g_cycle = 1
    /\ g_count >= 1
    /\ g_allocated_count >= 1
    /\ g_last_changed_address = 7
    /\ g_procs[g_first].ip # g_procs[g_first].mb1a

\* C16: after a load of a file cut short, is_init is false at the top level
\* and in every module.
C16_FailedLoadUninitialized ==
    pc = "failed" =>
        /\ ~g_is_init.main
        /\ ~g_is_init.mem
        /\ ~g_is_init.evo
        /\ ~g_is_init.proc

\* the memory section as the snapshot format lists it
MemorySectionListed(c) ==
    <<BoolWord(c.init.mem), c.hdr.order, c.hdr.size, c.w.allocated_count,
      c.hdr.capacity>>
        \o [i \in 1 .. INST_COUNT |-> c.w.inst_counter[i - 1]]
        \o [i \in 1 .. c.hdr.size |-> c.w.memory[i - 1]]

\* C17: in a file sal_main_save has written, the items after the three of the
\* top-level header are is_init, order, size, allocated, capacity, the 32
\* opcode counters and the size arena bytes, and the evolver's section
\* follows them.
C17_MemorySectionLayout ==
    (pc = "idle" /\ ev.op = "save") =>
        file = <<BoolWord(saved[1].core.init.main), saved[1].core.cycle,
                 saved[1].core.epoch>>
                   \o MemorySectionListed(saved[1].core)
                   \o evo_save_into(saved[1].core)
                   \o proc_save_into(saved[1].core)

\* the cells 0..4 hold JMPF NOP0 NOP1 NOP0 NOP1 and the process about to
\* step is at the JMPF
JumpLayout ==
    /\ [a \in 0 .. 4 |-> sal_mem_get_inst(W, a)]
           = [a \in 0 .. 4 |-> <<JMPF, NOP0, NOP1, NOP0, NOP1>>[a + 1]]
    /\ g_procs[pidx].ip = 0

QueueRecords(count, capacity, first, procs) ==
    [i \in 1 .. count |-> procs[QueueSlots(count, capacity, first)[i]]]

\* what a step that is sal_proc_create(address, size) does
CreateEffect(address, size) ==
    /\ g_count' = g_count + 1
    /\ g_count = 0 => (g_first' = 0 /\ g_last' = 0)
    /\ QueueRecords(g_count', g_capacity', g_first', g_procs')
           = Append(QueueRecords(g_count, g_capacity, g_first, g_procs),
                    [ZeroProc EXCEPT !.mb1a = address, !.mb1s = size,
                                     !.ip = address, !.sp = address])
    /\ QueueUids(g_count', g_capacity', g_first', uid')
           = Append(QueueUids(g_count, g_capacity, g_first, uid), next_uid)
    /\ QueueSlots(g_count', g_capacity', g_first')[g_count'] = g_last'
    /\ \A a \in Addrs :
         /\ g_memory'[a] % (INSTRUCTION_MASK + 1) = sal_mem_get_inst(W, a)
         /\ a \in Block(address, size) =>
                (~sal_mem_is_allocated(W, a)
                    /\ g_memory'[a] \div (INSTRUCTION_MASK + 1) = 1)
         /\ a \notin Block(address, size) => g_memory'[a] = g_memory[a]
    /\ g_allocated_count' = g_allocated_count + size
    /\ g_inst_counter' = g_inst_counter

\* C22: sal_proc_create(addr, size) adds one process as the newest of the
\* queue (first = last = 0 if the queue was empty) with mb1a = addr,
\* mb1s = size, ip = sp = addr and every other field zero, marks exactly the
\* cells addr .. addr + size - 1, which were unallocated, as allocated,
\* raises the allocated counter by size and the count by one, and keeps the
\* other records and their order from oldest to newest.
C22_CreateAddsNewest ==
    [][(pc = "idle" /\ ev'.op = "create") =>
          \E b \in CreateBlocks \cup UnitCreates : CreateEffect(b[1], b[2])
    ]_vars

\* a process has just been created behind another in a queue that wraps
\* around the end of its array
C22_Witness ==
    /\ ev.op = "create"
    /\ g_count >= 2
    /\ g_last < g_first
    /\ g_procs[g_last].mb1s >= 1

\* C23 as stated: the reaper queue never has room for more processes than
\* half the arena has cells.
C23_CapacityAtMostHalfArena == g_capacity <= g_size \div 2

\* the value of a op b for the three-register instruction inst
ArithResult(inst, a, b) ==
    CASE inst = SUMN -> u32_add(a, b)
      [] inst = SUBN -> u32_sub(a, b)
      [] inst = MULN -> u32_mul(a, b)
      [] inst = DIVN -> u32_div(a, b)

\* C24: SUMN, SUBN, MULN and DIVN followed by three register modifiers put
\* (second operand) op (third operand), modulo 2^32, into the first operand's
\* register and advance ip by one cell; a DIVN whose third operand is zero
\* changes no register and still advances ip by one cell.
C24_ThreeRegisterArithmetic ==
    [][(pc = "run" /\ StepInst \in {SUMN, SUBN, MULN, DIVN} /\ HasMods(3)) =>
          /\ g_procs'[pidx].ip = u32_add(g_procs[pidx].ip, 1)
          /\ IF StepInst = DIVN /\ Operand(3) = 0
             THEN \A r \in {"rax", "rbx", "rcx", "rdx"} :
                      g_procs'[pidx][r] = g_procs[pidx][r]
             ELSE \A r \in {"rax", "rbx", "rcx", "rdx"} :
                      g_procs'[pidx][r] =
                          IF r = RegOf(sal_mem_get_inst(W, CellAfter(1)))
                          THEN ArithResult(StepInst, Operand(2), Operand(3))
                          ELSE g_procs[pidx][r]
    ]_vars

\* a DIVN has just put 1 / (2^32 - 1) = 0 into rcx
C24_Witness ==
    /\ ev.op = "step"
    /\ ev.inst = DIVN
    /\ g_procs[ev.slot].rax = UINT32_MAX
    /\ g_procs[ev.slot].rbx = 1
    /\ g_procs[ev.slot].rcx = 0
    /\ sal_mem_get_inst(W, 6) = MODB
    /\ g_procs[ev.slot].ip = 5

\* the length of the maximal run of template cells that starts at source
TemplateRun(source) ==
    CHOOSE n \in 0 .. g_size :
        /\ \A k \in 0 .. (n - 1) :
               /\ source + k \in Addrs
               /\ sal_is_template(sal_mem_get_inst(W, source + k))
        /\ ~(/\ source + n \in Addrs
             /\ sal_is_template(sal_mem_get_inst(W, source + n)))

\* the cells from target on are, position by position, the NOP0/NOP1
\* complement of the whole template run that starts at source
ComplementAt(source, target) ==
    \A k \in 0 .. (TemplateRun(source) - 1) :
        /\ target + k \in Addrs
        /\ sal_mem_get_inst(W, target + k)
               = (IF sal_mem_get_inst(W, source + k) = NOP0 THEN NOP1 ELSE NOP0)

\* one cell further in the seek direction, or the same cell at the end of
\* the arena
SeekStep(sp) ==
    IF SeekForward
    THEN (IF sp + 1 \in Addrs THEN sp + 1 ELSE sp)
    ELSE (IF sp - 1 \in Addrs THEN sp - 1 ELSE sp)

\* the cells the seeker pointer has left behind since it set out from ip
SeekPassed ==
    { a \in Addrs : IF SeekForward
                    THEN g_procs[pidx].ip <= a /\ a < g_procs[pidx].sp
                    ELSE g_procs[pidx].sp < a /\ a <= g_procs[pidx].ip }

\* C25: a cycle of JMPB/JMPF with a template at ip + 1 either finds at sp the
\* complement of the whole template run and sets ip to sp, or leaves ip and
\* moves sp one cell in the seek direction (not at all at the end of the
\* arena); when the jump completes no cell sp has passed held the complement.
C25_JumpSeeksFirstComplement ==
    [][(pc = "run" /\ StepInst \in {JMPB, JMPF} /\ SeekHasTemplate) =>
          IF ComplementAt(CellAfter(1), g_procs[pidx].sp)
          THEN /\ g_procs'[pidx].ip = g_procs[pidx].sp
               /\ \A a \in SeekPassed : ~ComplementAt(CellAfter(1), a)
          ELSE /\ g_procs'[pidx].ip = g_procs[pidx].ip
               /\ g_procs'[pidx].sp = SeekStep(g_procs[pidx].sp)
    ]_vars

\* a JMPF has just jumped to 4, where the complement of its two-cell
\* template begins, past cell 2, which complements the first cell only
C25_Witness ==
    /\ ev.op = "step"
    /\ ev.inst = JMPF
    /\ sal_mem_get_inst(W, 2) = NOP1
    /\ sal_mem_get_inst(W, 3) = MODA
    /\ g_procs[ev.slot].ip = 4
    /\ g_procs[ev.slot].sp = 4

\* C26: ADRB/ADRF without a register modifier at ip + 1 or without a
\* template at ip + 2 fault; when the cells at sp complement the template run
\* at ip + 2 the modifier's register receives sp, ip moves on by one cell, sp
\* is set to the new ip, and no other register, block field, stack entry or
\* memory cell changes.
C26_AddressSearchStoresSp ==
    [][(pc = "run" /\ StepInst \in {ADRB, ADRF}) =>
          /\ g_memory' = g_memory
          /\ g_allocated_count' = g_allocated_count
          /\ ~SeekHasTemplate =>
                 g_procs' = [g_procs EXCEPT
                                ![pidx].ip = IpAfter(g_procs[pidx].ip),
                                ![pidx].sp = IpAfter(g_procs[pidx].ip)]
          /\ (SeekHasTemplate /\ ComplementAt(CellAfter(2), g_procs[pidx].sp)) =>
                 g_procs' = [g_procs EXCEPT
                                ![pidx] = [@ EXCEPT
                                    ![RegOf(sal_mem_get_inst(W, CellAfter(1)))] =
                                        g_procs[pidx].sp,
                                    !.ip = CellAfter(1),
                                    !.sp = CellAfter(1)]]
    ]_vars

\* an ADRB at 2 has just stored in rbx the address, 1, of the complement of
\* its template
C26_Witness ==
    /\ ev.op = "step"
    /\ ev.inst = ADRB
    /\ g_procs[ev.slot].rbx = 1
    /\ g_procs[ev.slot].ip = 3
    /\ g_procs[ev.slot].sp = 3

\* the process at pidx is at a MALB/MALF with both operands
AllocStep == pc = "run" /\ StepInst \in {MALB, MALF} /\ HasMods(2)

\* sp is where the cycle that added the last cell to the child block left it:
\* one cell past the block in the direction of growth, or on the block's last
\* added cell when that cell is the end of the arena
AllocSpAfterGrowth ==
    g_procs[pidx].sp =
        IF StepInst = MALF
        THEN (IF g_procs[pidx].mb2a + g_procs[pidx].mb2s \in Addrs
              THEN g_procs[pidx].mb2a + g_procs[pidx].mb2s
              ELSE g_procs[pidx].mb2a + g_procs[pidx].mb2s - 1)
        ELSE (IF g_procs[pidx].mb2a - 1 \in Addrs
              THEN g_procs[pidx].mb2a - 1
              ELSE g_procs[pidx].mb2a)

\* C27 as stated: once MALB/MALF has grown the child block to the requested
\* size, its next cycle stores mb2a in the second operand's register, moves
\* ip on by one cell and keeps the child block, all of it allocated, wherever
\* the block lies in the arena.
C27_GrownChildCompletes ==
    [][(/\ AllocStep
        /\ Operand(1) # 0
        /\ g_procs[pidx].mb2s = Operand(1)
        /\ AllocSpAfterGrowth) =>
          /\ g_procs'[pidx][RegOf(sal_mem_get_inst(W, CellAfter(2)))]
                 = g_procs[pidx].mb2a
          /\ g_procs'[pidx].ip = CellAfter(1)
          /\ g_procs'[pidx].mb2a = g_procs[pidx].mb2a
          /\ g_procs'[pidx].mb2s = g_procs[pidx].mb2s
          /\ \A a \in Block(g_procs[pidx].mb2a, g_procs[pidx].mb2s) :
                 g_memory'[a] \div (INSTRUCTION_MASK + 1) = 1
    ]_vars

\* sp is the cell next to the child block on the side where it grows
AllocAdjacent ==
    g_procs[pidx].sp = IF StepInst = MALF
                       THEN u32_add(g_procs[pidx].mb2a, g_procs[pidx].mb2s)
                       ELSE u32_sub(g_procs[pidx].mb2a, 1)

\* a MALB/MALF cycle that is neither a fault nor the completion
AllocSeeks ==
    /\ AllocStep
    /\ Operand(1) # 0
    /\ g_procs[pidx].mb2s # Operand(1)
    /\ g_procs[pidx].mb2s # 0 => AllocAdjacent

\* one cell further in the direction of the allocation
AllocSpNext ==
    IF StepInst = MALF THEN u32_add(g_procs[pidx].sp, 1)
    ELSE u32_sub(g_procs[pidx].sp, 1)

\* C28 as stated: a MALB/MALF cycle that extends the child block marks the
\* cell at sp, and no other, as allocated, adds one to mb2s, keeps the block
\* contiguous (MALF keeps mb2a, MALB lowers it by one, a first cell sets it
\* to sp), steps sp one cell in the direction of the allocation and leaves ip.
C28_ExtensionStepsSp ==
    [][(AllocSeeks /\ ~sal_mem_is_allocated(W, g_procs[pidx].sp)) =>
          /\ g_memory' = [g_memory EXCEPT ![g_procs[pidx].sp] = @ + ALLOCATED_FLAG]
          /\ g_allocated_count' = g_allocated_count + 1
          /\ g_procs'[pidx].mb2s = g_procs[pidx].mb2s + 1
          /\ g_procs'[pidx].mb2a =
                 IF g_procs[pidx].mb2s = 0 THEN g_procs[pidx].sp
                 ELSE IF StepInst = MALF THEN g_procs[pidx].mb2a
                 ELSE g_procs[pidx].mb2a - 1
          /\ g_procs'[pidx].sp = AllocSpNext
          /\ g_procs'[pidx].ip = g_procs[pidx].ip
    ]_vars

\* C29 as stated: a MALB/MALF cycle that finds the cell at sp allocated
\* while the child block is not complete releases the partial child block
\* (its cells become unallocated, mb2a = mb2s = 0, the allocated counter
\* drops by the old mb2s), steps sp one cell in the direction of the
\* allocation, leaves ip, and changes no ALLOCATED bit outside that block.
C29_CollisionReleasesChild ==
    [][(AllocSeeks /\ sal_mem_is_allocated(W, g_procs[pidx].sp)) =>
          /\ \A a \in Addrs :
                 g_memory'[a] =
                     IF a \in Block(g_procs[pidx].mb2a, g_procs[pidx].mb2s)
                     THEN sal_mem_get_inst(W, a)
                     ELSE g_memory[a]
          /\ g_procs'[pidx].mb2a = 0
          /\ g_procs'[pidx].mb2s = 0
          /\ g_allocated_count' = g_allocated_count - g_procs[pidx].mb2s
          /\ g_procs'[pidx].sp = AllocSpNext
          /\ g_procs'[pidx].ip = g_procs[pidx].ip
    ]_vars

\* the two memory blocks of a process record
BlockFields(p) == <<p.mb1a, p.mb1s, p.mb2a, p.mb2s>>

\* C30 as stated: SWAP in a process with a child block exchanges (mb1a, mb1s) with
\* (mb2a, mb2s), moves ip on by one cell with sp set to it, and changes
\* nothing else: no memory cell, counter, register or stack entry; a second
\* SWAP right after it restores the block fields; SWAP without a child block
\* faults.
C30_SwapExchangesBlocks ==
    [][(pc = "run" /\ StepInst = SWAP) =>
          /\ g_memory' = g_memory
          /\ g_allocated_count' = g_allocated_count
          /\ g_inst_counter' = g_inst_counter
          /\ g_count' = g_count
          /\ g_procs' = [g_procs EXCEPT ![pidx] =
                 IF g_procs[pidx].mb2s # 0
                 THEN [@ EXCEPT !.mb1a = g_procs[pidx].mb2a,
                                !.mb1s = g_procs[pidx].mb2s,
                                !.mb2a = g_procs[pidx].mb1a,
                                !.mb2s = g_procs[pidx].mb1s,
                                !.ip = IpAfter(g_procs[pidx].ip),
                                !.sp = IpAfter(g_procs[pidx].ip)]
                 ELSE [@ EXCEPT !.ip = IpAfter(g_procs[pidx].ip),
                                !.sp = IpAfter(g_procs[pidx].ip)]]
          /\ g_procs[pidx].mb2s # 0 =>
                 BlockFields(swap(swap(W, pidx), pidx).procs[pidx])
                     = BlockFields(g_procs[pidx])
    ]_vars

\* the record at pidx is about to execute the instruction inst
AtInst(inst) == pc = "run" /\ StepInst = inst

\* the record of the process at pidx after an instruction that only moves ip
Faulted ==
    [g_procs[pidx] EXCEPT !.ip = IpAfter(g_procs[pidx].ip),
                          !.sp = IpAfter(g_procs[pidx].ip)]

\* C31: SPLT in a process with a child block adds exactly one process, the
\* newest of the queue, whose mb1 is the parent's former mb2, with ip = sp =
\* its address and every other field zero; the parent loses its mb2 fields,
\* the other records keep their contents and order, and no ALLOCATED bit nor
\* the allocated counter changes; SPLT without a child block faults.
C31_SplitGivesBirth ==
    [][AtInst(SPLT) =>
          /\ g_memory' = g_memory
          /\ g_allocated_count' = g_allocated_count
          /\ g_inst_counter' = g_inst_counter
          /\ IF g_procs[pidx].mb2s # 0
             THEN /\ g_count' = g_count + 1
                  /\ QueueSlots(g_count', g_capacity', g_first')[g_count'] = g_last'
                  /\ g_procs'[pidx] = [Faulted EXCEPT !.mb2a = 0, !.mb2s = 0]
                  /\ QueueRecords(g_count', g_capacity', g_first', g_procs')
                       = Append(
                           [i \in 1 .. g_count |->
                              IF QueueSlots(g_count, g_capacity, g_first)[i] = pidx
                              THEN [Faulted EXCEPT !.mb2a = 0, !.mb2s = 0]
                              ELSE QueueRecords(g_count, g_capacity, g_first,
                                                g_procs)[i]],
                           [ZeroProc EXCEPT !.mb1a = g_procs[pidx].mb2a,
                                            !.mb1s = g_procs[pidx].mb2s,
                                            !.ip = g_procs[pidx].mb2a,
                                            !.sp = g_procs[pidx].mb2a])
                  /\ QueueUids(g_count', g_capacity', g_first', uid')
                       = Append(QueueUids(g_count, g_capacity, g_first, uid),
                                next_uid)
             ELSE /\ g_count' = g_count
                  /\ g_capacity' = g_capacity
                  /\ g_first' = g_first
                  /\ g_last' = g_last
                  /\ g_procs' = [g_procs EXCEPT ![pidx] = Faulted]
    ]_vars

\* a SPLT has just given birth in a full queue, which was reallocated
C31_Witness ==
    /\ ev.op = "step"
    /\ ev.inst = SPLT
    /\ ev.born
    /\ ev.realloc
    /\ g_procs[g_last].mb1s # 0
    /\ g_procs[ev.slot].mb2s = 0

\* the cells of the two blocks of the oldest record
OldestCells ==
    Block(g_procs[g_first].mb1a, g_procs[g_first].mb1s)
        \cup Block(g_procs[g_first].mb2a, g_procs[g_first].mb2s)

C33_ReallocPreservesQueue ==
    [][ev'.op = "realloc" =>
          /\ g_capacity' = 2 * g_capacity
          /\ g_count' = g_count
          /\ QueueRecords(g_count', g_capacity', g_first', g_procs')
                 = QueueRecords(g_count, g_capacity, g_first, g_procs)
          /\ QueueSlots(g_count', g_capacity', g_first')[g_count'] = g_last'
          /\ DOMAIN g_procs' = 0 .. (g_capacity' - 1)
          /\ \A slot \in 0 .. (g_capacity' - 1) :
                 (\A i \in 1 .. g_count' :
                      QueueSlots(g_count', g_capacity', g_first')[i] # slot)
                     => g_procs'[slot] = ZeroProc
    ]_vars

\* a full queue of four records that wrapped around the end of its array has
\* been reallocated around a queue_lock that lay between last and first
C33_Witness ==
    /\ ev.op = "realloc"
    /\ g_capacity = 8
    /\ g_count = 4
    /\ ev.slot = 2
    /\ g_first > g_last

\* the process at pidx is at a LOAD or WRTE whose operands are valid
CopyStep ==
    /\ pc = "run"
    /\ StepInst \in {LOAD, WRTE}
    /\ HasMods(2)
    /\ Operand(1) \in Addrs
    /\ StepInst = WRTE => Operand(2) \in 0 .. (INST_COUNT - 1)

\* the number of cells between sp and the address in the first operand
CopyDistance(p) ==
    IF p.sp < Operand(1) THEN Operand(1) - p.sp ELSE p.sp - Operand(1)

\* C34: a LOAD or WRTE with valid operands whose sp is not yet the address
\* in its first operand moves sp one cell toward it and changes nothing
\* else, so that the distance left drops by exactly one per cycle; with sp at
\* that address it completes (LOAD stores the instruction found there in the
\* second operand, WRTE writes its second operand there or faults) and moves
\* ip on by one cell.
C34_CopySeeksThenCompletes ==
    [][CopyStep =>
          IF g_procs[pidx].sp # Operand(1)
          THEN /\ g_procs' = [g_procs EXCEPT ![pidx].sp =
                                 IF @ < Operand(1) THEN @ + 1 ELSE @ - 1]
               /\ CopyDistance(g_procs'[pidx]) = CopyDistance(g_procs[pidx]) - 1
               /\ g_memory' = g_memory
          ELSE /\ g_procs'[pidx].ip = CellAfter(1)
               /\ g_procs'[pidx].sp = CellAfter(1)
               /\ IF StepInst = LOAD
                  THEN /\ g_procs' = [g_procs EXCEPT ![pidx] = [@ EXCEPT
                              ![RegOf(sal_mem_get_inst(W, CellAfter(2)))] =
                                  sal_mem_get_inst(W, Operand(1)),
                              !.ip = CellAfter(1),
                              !.sp = CellAfter(1)]]
                       /\ g_memory' = g_memory
                  ELSE /\ g_procs' = [g_procs EXCEPT ![pidx] = Faulted]
                       /\ \/ g_memory' = g_memory
                          \/ g_memory' = [g_memory EXCEPT ![Operand(1)] =
                                 @ - sal_mem_get_inst(W, Operand(1)) + Operand(2)]
    ]_vars

\* the second LOAD of the organism at 1 has just completed: rax held the
\* address 5, ahead of the instruction, and rbx received the MODA found there
C34_Witness ==
    /\ ev.op = "step"
    /\ ev.inst = LOAD
    /\ g_procs[ev.slot].rax = MODD
    /\ g_procs[ev.slot].rbx = MODA
    /\ g_procs[ev.slot].ip = 5

\* the cell at p's ip holds a procedural instruction that moves the seeker
\* pointer to the side of ip where p's seeker pointer is
SeekingAtIp(p) ==
    \/ sal_mem_get_inst(W, p.ip) \in {JMPF, ADRF, MALF} /\ u32_lt(p.ip, p.sp)
    \/ sal_mem_get_inst(W, p.ip) \in {JMPB, ADRB, MALB} /\ u32_lt(p.sp, p.ip)
    \/ sal_mem_get_inst(W, p.ip) \in {LOAD, WRTE}

\* C35 as stated: at every tick boundary, a live process whose seeker pointer
\* is not at its ip is in the middle of the procedural instruction at ip that
\* moved the seeker pointer, cosmic rays and foreign writes notwithstanding.
C35_SpLeavesIpOnlySeeking ==
    pc = "idle" =>
        \A i \in 1 .. g_count :
            \A p \in {g_procs[QueueSlots(g_count, g_capacity, g_first)[i]]} :
                p.mb1s # 0 /\ p.sp # p.ip => SeekingAtIp(p)

\* the arguments of sal_ren_get_image tried: origin, cell_size, buff_size
RenderArgs == (0 .. (g_size - 1)) \X {1, 2} \X (1 .. g_size)

\* every byte pixel i of the image may hold has the flag set
PixelHas(image, pixels, flag) ==
    \A i \in pixels : \A byte \in image[i] : (byte \div flag) % 2 = 1

\* the pixels of the image of `args` that contain `address`
PixelOf(args, address) ==
    apply_flag(args[1], u32_add(args[1], u32_mul(args[2], args[3])), args[2], address)

\* C36 as stated: in the image, every live process, whatever its slot, has
\* bit 7 on the pixel of its ip and bit 6 on the pixels of its mb1a and, with
\* a child block, of its mb2a, where these lie in the rendered range.
C36_ImageFlagsEveryProcess ==
    \A args \in RenderArgs :
        \A id \in 0 .. (g_capacity - 1) :
            \A image \in {sal_ren_get_image(W, args[1], args[2], args[3])} :
                ~sal_proc_is_free(W, id) =>
                    /\ PixelHas(image, PixelOf(args, g_procs[id].ip), IP_FLAG)
                    /\ PixelHas(image, PixelOf(args, g_procs[id].mb1a), BLOCK_FLAG)
                    /\ g_procs[id].mb2s # 0 =>
                           PixelHas(image, PixelOf(args, g_procs[id].mb2a), BLOCK_FLAG)

\* C37 as stated: a RECV with a valid modifier, the pipe being empty, stores
\* NOP0, a valid instruction, in its operand and advances ip; nothing else
\* changes.
C37_ReceiveStoresNop0 ==
    [][AtInst(RECV) /\ HasMods(1) =>
          /\ sal_is_inst(g_procs'[pidx][RegOf(sal_mem_get_inst(W, CellAfter(1)))])
          /\ g_procs' = [g_procs EXCEPT ![pidx] = [Faulted EXCEPT
                            ![RegOf(sal_mem_get_inst(W, CellAfter(1)))] = NOP0]]
          /\ g_memory' = g_memory
    ]_vars

\* the opcodes proc_cycle has no case for
NoOperation == {NOP0, NOP1, MODA, MODB, MODC, MODD, EATB, EATF}

C39_AllocationLeaves ==
    [][(AllocStep /\ Operand(1) # 0) =>
          \/ g_procs'[pidx] # g_procs[pidx]
          \/ g_memory' # g_memory
    ]_vars

\* the slots of the queue other than the one that is stepping
OtherSlots == InQueue(W) \ {pidx}

\* the slots of the queue after the step
SlotsAfter ==
    {QueueSlots(g_count', g_capacity', g_first')[i] : i \in 1 .. g_count'}

\* the cells of the blocks of the record in slot i
CellsOf(i) ==
    Block(g_procs[i].mb1a, g_procs[i].mb1s)
        \cup Block(g_procs[i].mb2a, g_procs[i].mb2s)

\* C40: one proc_cycle step of the process in slot pidx leaves the record of
\* every other process of the queue as it was (in whatever slot a growth of
\* the queue puts it), clears no ALLOCATED bit of a cell of another process's
\* mb1 or mb2, and writes no record but its own and, on SPLT, that of the
\* child it creates: a record that was not in the queue before is the child,
\* and the slots outside the queue stay zeroed.
C40_StepWritesOwnRecordOnly ==
    [][pc = "run" =>
          \E others \in {OtherSlots} :
            \E after \in {SlotsAfter} :
              /\ \A i \in others :
                     /\ \E j \in after :
                            uid'[j] = uid[i] /\ g_procs'[j] = g_procs[i]
                     /\ \A a \in CellsOf(i) :
                            g_memory[a] >= ALLOCATED_FLAG =>
                                g_memory'[a] >= ALLOCATED_FLAG
              /\ \A j \in after :
                     uid'[j] \notin {uid[i] : i \in others \cup {pidx}} =>
                         /\ StepInst = SPLT
                         /\ g_procs'[j] = [ZeroProc EXCEPT
                                              !.mb1a = g_procs[pidx].mb2a,
                                              !.mb1s = g_procs[pidx].mb2s,
                                              !.ip = g_procs[pidx].mb2a,
                                              !.sp = g_procs[pidx].mb2a]
              /\ \A j \in (0 .. (g_capacity' - 1)) \ after :
                     g_procs'[j] = ZeroProc
    ]_vars

\* a SPLT has just given birth in a queue that was full and held another
\* process: the queue grew and the other records moved with it
C40_Witness ==
    /\ ev.op = "step"
    /\ ev.inst = SPLT
    /\ ev.born
    /\ ev.realloc
    /\ g_count >= 3

=============================================================================
